---- MODULE Spec2Model ----
(***************************************************************************)
(* Discriminated decoding of gateway payloads (py-napcat / Hcatbot).       *)
(*                                                                         *)
(* The package was renamed twice (py-napcat, py_napcat, Hcatbot); the      *)
(* model follows, module by module, the registry-based revision of each    *)
(* file: basic_event, exception, message_event, meta_event and sender      *)
(* from py_napcat/model, element, notice_event and request_event from      *)
(* Hcatbot/model, loaded in the order of Hcatbot/model/__init__.py.        *)
(*                                                                         *)
(* JSON objects are functions from keys to values; an absent key is        *)
(* outside the DOMAIN.  JSON scalars are strings: an integer n is written  *)
(* "#n", a boolean "#True" / "#False", null (Python's None) "None"; the  *)
(* rest are JSON strings.  Non-ASCII literals of the source are            *)
(* transliterated.                                                         *)
(* A Python exception is a chain of frames, the delivered one first and    *)
(* its __cause__ chain behind it.                                          *)
(***************************************************************************)
EXTENDS Integers, Sequences, FiniteSets, TLC

\* decode_ran records whether a parse_event or parse_element call has run so far.
VARIABLES registries, loaded, pc, last, decode_ran

vars == <<registries, loaded, pc, last, decode_ran>>

(***************************************************************************)
(* Bounds of the model.                                                    *)
(***************************************************************************)
\* The most elements, nested ones included, of a generated message array.
MaxNodes == 3

(***************************************************************************)
(* Discriminator enums.                                                    *)
(***************************************************************************)
PostType == {"meta_event", "message", "message_sent", "notice", "request"}

MessageType == {"group", "private"}

MetaType == {"heartbeat", "lifecycle"}

RequestType == {"friend", "group"}

NoticeType ==
    {"group_upload", "group_admin", "group_decrease", "group_increase",
     "group_ban", "group_recall", "group_card", "group_msg_emoji_like",
     "friend_add", "friend_recall", "lucky_king", "essence", "honor", "poke"}

ElementType ==
    {"text", "at", "reply", "face", "mface", "dice", "rps", "poke", "image",
     "record", "video", "file", "json", "music", "forward"}

\* The enum class behind each registry.
RegistryEnum ==
    [PostType |-> PostType, MessageType |-> MessageType, MetaType |-> MetaType,
     NoticeType |-> NoticeType, RequestType |-> RequestType,
     ElementType |-> ElementType]

EventRegistries == {"PostType", "MessageType", "MetaType", "NoticeType", "RequestType"}

(***************************************************************************)
(* Exceptions.                                                             *)
(***************************************************************************)
\* Python's built-in exceptions raised by the decoders; all derive from Exception.
BuiltinErrors == {"KeyError", "ValueError", "AssertionError", "TypeError"}

\* class CustomError(BaseException) and its subclasses.
CustomErrors ==
    {"ParameterError", "SendElementOnlyError", "ParseError", "EventReceivedOnlyError",
     "UnregisteredError", "UnregisteredEventError", "UnregisteredElementError",
     "ParserRegisteredError"}

\* Variant: the library's errors derive from Exception, so `except Exception`
\* catches them as well.
IsException_Custom(type) == type \in BuiltinErrors \cup CustomErrors

\* isinstance(e, Exception): what an `except Exception` clause catches.
IsException(type) == type \in BuiltinErrors

\* isinstance(e, UnregisteredError).
IsUnregisteredError(type) ==
    type \in {"UnregisteredError", "UnregisteredEventError", "UnregisteredElementError"}

\* raise type(...) at site, about arg.
Raise(type, site, arg) == <<[type |-> type, site |-> site, arg |-> arg]>>

\* raise type(...) from e.
RaiseFrom(type, site, arg, e) == Raise(type, site, arg) \o e

Ok(v) == [ok |-> TRUE, val |-> v]

Err(e) == [ok |-> FALSE, exc |-> e]

(***************************************************************************)
(* The variant registries.                                                 *)
(***************************************************************************)
\* dict.get(key): the class registered for key, or "None".
resolve(registry, key) == registry[key]

EmptyRegistries == [r \in DOMAIN RegistryEnum |-> [k \in RegistryEnum[r] |-> "None"]]

\* Variant: the decorator stores the class without looking at the table first.
register_event_parser_Overwrite(registry, event, event_parser_class) ==
    [registry |-> [registry EXCEPT ![event] = event_parser_class],
     res |-> Ok(event_parser_class)]

\* The decorator of BasicEvent / MessageEvent / MetaEvent / NoticeEvent /
\* RequestEvent.register_event_parser applied to event_parser_class.
register_event_parser(registry, event, event_parser_class) ==
    IF registry[event] # "None"
    THEN [registry |-> registry,
          res |-> Err(Raise("ParserRegisteredError", "register_event_parser", event))]
    ELSE [registry |-> [registry EXCEPT ![event] = event_parser_class],
          res |-> Ok(event_parser_class)]

\* The decorator of Element.register_element applied to element_class.
register_element(registry, element_type, element_class) ==
    [registry |-> [registry EXCEPT ![element_type] = element_class],
     res |-> Ok(element_class)]

\* One decorator call on the registry named r.
register(r, registry, key, class) ==
    IF r = "ElementType"
    THEN register_element(registry, key, class)
    ELSE register_event_parser(registry, key, class)

\* The decorators run by importing the model package, in import order; the
\* decorators stacked on one class run bottom-up.
Decorator(r, key, class) == [registry |-> r, key |-> key, class |-> class]

ElementDecorators ==
    <<Decorator("ElementType", "text", "TextElement"),
      Decorator("ElementType", "at", "AtElement"),
      Decorator("ElementType", "reply", "ReplyElement"),
      Decorator("ElementType", "face", "FaceElement"),
      Decorator("ElementType", "mface", "MFaceElement"),
      Decorator("ElementType", "dice", "DiceElement"),
      Decorator("ElementType", "rps", "RPSElement"),
      Decorator("ElementType", "poke", "PokeElement"),
      Decorator("ElementType", "image", "ImageElement"),
      Decorator("ElementType", "record", "RecordElement"),
      Decorator("ElementType", "video", "VideoElement"),
      Decorator("ElementType", "file", "FileElement"),
      Decorator("ElementType", "json", "JsonElement"),
      Decorator("ElementType", "music", "MusicElement"),
      Decorator("ElementType", "forward", "ForwardElement")>>

MetaDecorators ==
    <<Decorator("PostType", "meta_event", "MetaEvent"),
      Decorator("MetaType", "heartbeat", "HeartbeatEvent"),
      Decorator("MetaType", "lifecycle", "LifeCycleEvent")>>

NoticeDecorators ==
    <<Decorator("NoticeType", "group_upload", "GroupUploadNoticeEvent"),
      Decorator("NoticeType", "group_admin", "GroupAdminNoticeEvent"),
      Decorator("NoticeType", "group_decrease", "GroupDecreaseNoticeEvent"),
      Decorator("NoticeType", "group_increase", "GroupIncreaseNoticeEvent"),
      Decorator("NoticeType", "group_ban", "GroupBanNoticeEvent"),
      Decorator("NoticeType", "group_recall", "GroupRecallNoticeEvent"),
      Decorator("NoticeType", "group_card", "GroupCardNoticeEvent"),
      Decorator("NoticeType", "group_msg_emoji_like", "GroupMsgEmojiLikeNoticeEvent"),
      Decorator("NoticeType", "friend_add", "FriendAddNoticeEvent"),
      Decorator("NoticeType", "friend_recall", "FriendRecallNoticeEvent"),
      Decorator("NoticeType", "lucky_king", "LuckyKingNoticeEvent"),
      Decorator("NoticeType", "essence", "EssenceNoticeEvent"),
      Decorator("NoticeType", "honor", "HonorNoticeEvent"),
      Decorator("NoticeType", "poke", "PokeNoticeEvent")>>

\* Variant: request_event.py registers no decoder for group requests.
RequestDecorators_NoGroup ==
    <<Decorator("PostType", "request", "RequestEvent"),
      Decorator("RequestType", "friend", "FriendRequestEvent")>>

RequestDecorators ==
    <<Decorator("PostType", "request", "RequestEvent"),
      Decorator("RequestType", "friend", "FriendRequestEvent"),
      Decorator("RequestType", "group", "GroupRequestEvent")>>

MessageDecorators ==
    <<Decorator("PostType", "message_sent", "MessageEvent"),
      Decorator("PostType", "message", "MessageEvent"),
      Decorator("MessageType", "group", "GroupMessageEvent"),
      Decorator("MessageType", "private", "FriendMessageEvent")>>

ImportOrder ==
    ElementDecorators \o MetaDecorators \o NoticeDecorators \o RequestDecorators
        \o MessageDecorators

Imported == loaded = Len(ImportOrder)

(***************************************************************************)
(* JSON scalars and Python's view of them.                                 *)
(***************************************************************************)
None == "None"

IntValues == {"#111", "#14", "#300000", "#7"}

BoolValues == {"#True", "#False"}

\* isinstance(v, int); bool is a subclass of int.
IsInt(v) == v \in IntValues \cup BoolValues

IsBool(v) == v \in BoolValues

\* isinstance(v, str).
IsStr(v) == v \notin IntValues \cup BoolValues \cup {None}

\* str(v), as an f-string renders a scalar.
PyStr(v) ==
    CASE v = "#111" -> "111"
      [] v = "#14" -> "14"
      [] v = "#300000" -> "300000"
      [] v = "#7" -> "7"
      [] v = "#True" -> "True"
      [] v = "#False" -> "False"
      [] OTHER -> v

\* One isinstance / None assertion of a __post_init__.
Holds(kind, v) ==
    CASE kind = "notnone" -> v # None
      [] kind = "int" -> IsInt(v)
      [] kind = "str" -> IsStr(v)
      [] kind = "bool" -> IsBool(v)

(***************************************************************************)
(* Class descriptors: the keyword arguments of cls(...) in from_json, in   *)
(* evaluation order, the assertions of __post_init__ in execution order,   *)
(* and the except clauses around the constructor call.                     *)
(***************************************************************************)
Arg(arg, how, key, conv, values) ==
    [arg |-> arg, how |-> how, key |-> key, conv |-> conv, values |-> values]

\* arg=json_dict[key]
Req(arg, key) == Arg(arg, "req", key, "raw", {})

\* arg=json_dict.get(key)
Opt(arg, key) == Arg(arg, "opt", key, "raw", {})

\* arg=SomeEnum(json_dict[key])
ReqEnum(arg, key, values) == Arg(arg, "req", key, "enum", values)

\* arg=Member, a value fixed by the class
Const(arg, value) == Arg(arg, "const", value, "raw", {})

\* arg=Class.from_json(json_dict[key])
Nested(arg, key, class) == Arg(arg, "req", key, class, {})

\* arg=[Element.parse_element(item) for item in json_dict[key]]
Elements(arg, key) == Arg(arg, "req", key, "elements", {})

Check(arg, kind) == [arg |-> arg, kind |-> kind]

NoCatch == [t \in {} |-> ""]

EventCatch == [KeyError |-> "ParameterError", ValueError |-> "ParameterError"]

KeyCatch == [KeyError |-> "ParameterError"]

\* Element data classes turn a missing key into ValueError.
DataCatch == [KeyError |-> "ValueError"]

Class(name, kind, tag, args, post_init, catches) ==
    [name |-> name, kind |-> kind, tag |-> tag, args |-> args,
     post_init |-> post_init, catches |-> catches]

(***************************************************************************)
(* Element classes: the element type each constructor fixes and the        *)
(* from_json of its data class.                                            *)
(***************************************************************************)
\* The `raw` object of a face element, reduced to what FaceElement.text reads.
NoneObject == [dict |-> FALSE, faceText |-> None]

\* arg=json_dict.get(key) for an object-valued key
OptObject(arg, key) == Arg(arg, "opt", key, "object", {})

TextElement ==
    Class("TextElement", "element", "text", <<Req("text", "text")>>,
          <<Check("text", "str")>>, DataCatch)

AtElement ==
    Class("AtElement", "element", "at", <<Req("target_user_id", "qq")>>,
          <<Check("target_user_id", "str")>>, DataCatch)

ReplyElement ==
    Class("ReplyElement", "element", "reply", <<Req("target_message_id", "id")>>,
          <<Check("target_message_id", "str")>>, DataCatch)

FaceElement ==
    Class("FaceElement", "element", "face",
          <<Req("id", "id"), OptObject("raw", "raw"), Opt("result_id", "resultId"),
            Opt("chain_count", "chainCount")>>,
          <<Check("id", "str")>>, DataCatch)

MFaceElement ==
    Class("MFaceElement", "element", "mface",
          <<Req("emoji_id", "emojiId"), Req("emoji_package_id", "emojiPackageId"),
            Opt("key", "key"), Const("summary", None)>>,
          <<Check("emoji_id", "str"), Check("emoji_package_id", "str")>>, DataCatch)

DiceElement ==
    Class("DiceElement", "element", "dice", <<Req("result", "result")>>, <<>>, DataCatch)

RPSResult == [CLOTH |-> "1", SHEARS |-> "2", STONE |-> "3"]

RPSElement ==
    Class("RPSElement", "element", "rps",
          <<ReqEnum("result", "result", {RPSResult[n] : n \in DOMAIN RPSResult})>>, <<>>,
          [KeyError |-> "ValueError", ValueError |-> "ValueError"])

PokeElement ==
    Class("PokeElement", "element", "poke", <<Req("type", "type"), Req("id", "id")>>,
          <<Check("type", "str"), Check("id", "str")>>, DataCatch)

ImageElement ==
    Class("ImageElement", "element", "image",
          <<Req("file", "file"), Opt("url", "url"), Opt("summary", "summary"),
            Opt("sub_type", "sub_type"), Opt("file_size", "file_size"), Opt("key", "key"),
            Opt("emoji_id", "emoji_id"), Opt("emoji_package_id", "emoji_package_id")>>,
          <<Check("file", "str")>>, DataCatch)

RecordElement ==
    Class("RecordElement", "element", "record",
          <<Req("file", "file"), Opt("file_size", "file_size"), Opt("path", "path")>>,
          <<Check("file", "str")>>, DataCatch)

VideoElement ==
    Class("VideoElement", "element", "video",
          <<Req("file", "file"), Opt("url", "url"), Opt("file_size", "file_size"),
            Const("thumb", None)>>,
          <<Check("file", "str")>>, DataCatch)

FileElement ==
    Class("FileElement", "element", "file",
          <<Req("file", "file"), Opt("file_id", "file_id"), Opt("file_size", "file_size"),
            Const("name", None)>>,
          <<Check("file", "str")>>, DataCatch)

JsonElement ==
    Class("JsonElement", "element", "json", <<Req("data", "data")>>,
          <<Check("data", "str")>>, DataCatch)

\* MusicElement.from_json raises before any field is read.
MusicElement == Class("MusicElement", "element", "music", <<>>, <<>>, NoCatch)

\* ForwardElementData: id is read after the content has been decoded.
ForwardElement ==
    Class("ForwardElement", "element", "forward", <<Req("id", "id")>>,
          <<Check("id", "str")>>, DataCatch)

ElementClasses ==
    [TextElement |-> TextElement, AtElement |-> AtElement, ReplyElement |-> ReplyElement,
     FaceElement |-> FaceElement, MFaceElement |-> MFaceElement,
     DiceElement |-> DiceElement, RPSElement |-> RPSElement, PokeElement |-> PokeElement,
     ImageElement |-> ImageElement, RecordElement |-> RecordElement,
     VideoElement |-> VideoElement, FileElement |-> FileElement,
     JsonElement |-> JsonElement, MusicElement |-> MusicElement,
     ForwardElement |-> ForwardElement]

(***************************************************************************)
(* Sender and event classes.                                               *)
(***************************************************************************)
UserSex == {"male", "female", "unknown"}

UserRole == {"owner", "admin", "member"}

FriendSender ==
    Class("FriendSender", "value", "",
          <<Req("user_id", "user_id"), Req("nickname", "nickname"),
            ReqEnum("sex", "sex", UserSex), Opt("group_id", "group_id")>>,
          <<>>, NoCatch)

GroupSender ==
    Class("GroupSender", "value", "",
          <<Req("user_id", "user_id"), Req("nickname", "nickname"),
            ReqEnum("sex", "sex", UserSex), ReqEnum("role", "role", UserRole),
            Opt("card", "card")>>,
          <<>>, NoCatch)

\* BasicEvent.__post_init__
BasicPostInit ==
    <<Check("time", "notnone"), Check("post_type", "notnone"), Check("self_id", "notnone"),
      Check("self_id", "int"), Check("time", "int")>>

\* MessageEvent.__post_init__, which does not call BasicEvent.__post_init__
MessagePostInit ==
    <<Check("message_type", "notnone"), Check("message_id", "notnone"),
      Check("user_id", "notnone"), Check("font", "notnone"),
      Check("raw_message", "notnone"), Check("message_id", "int"),
      Check("user_id", "int"), Check("font", "int"), Check("raw_message", "str")>>

\* Variant: the message classes fix post_type to MESSAGE.
MessageArgs_Pinned ==
    <<Req("time", "time"), Const("post_type", "message"),
      Req("self_id", "self_id"), ReqEnum("message_type", "message_type", MessageType),
      Req("message_id", "message_id"), Req("user_id", "user_id"), Req("font", "font"),
      Req("raw_message", "raw_message"), Elements("message", "message")>>

\* The keyword arguments GroupMessageEvent and FriendMessageEvent share.
MessageArgs ==
    <<Req("time", "time"), ReqEnum("post_type", "post_type", PostType),
      Req("self_id", "self_id"), ReqEnum("message_type", "message_type", MessageType),
      Req("message_id", "message_id"), Req("user_id", "user_id"), Req("font", "font"),
      Req("raw_message", "raw_message"), Elements("message", "message")>>

GroupMessageEvent ==
    Class("GroupMessageEvent", "event", "group",
          MessageArgs \o
          <<ReqEnum("sub_type", "sub_type", {"normal", "anonymous", "notice"}),
            Req("group_id", "group_id"), Nested("sender", "sender", "GroupSender")>>,
          MessagePostInit \o
          <<Check("sub_type", "notnone"), Check("group_id", "notnone"),
            Check("group_id", "int")>>,
          EventCatch)

FriendMessageEvent ==
    Class("FriendMessageEvent", "event", "private",
          MessageArgs \o
          <<ReqEnum("sub_type", "sub_type", {"friend", "group"}),
            Nested("sender", "sender", "FriendSender"), Opt("target_id", "target_id"),
            Opt("temp_source", "temp_source")>>,
          MessagePostInit \o <<Check("sub_type", "notnone")>>,
          EventCatch)

HeartbeatStatus ==
    Class("HeartbeatStatus", "value", "",
          <<Req("online", "online"), Req("good", "good")>>,
          <<Check("online", "notnone"), Check("good", "notnone"),
            Check("online", "bool"), Check("good", "bool")>>,
          KeyCatch)

HeartbeatEvent ==
    Class("HeartbeatEvent", "event", "heartbeat",
          <<Req("time", "time"), Req("self_id", "self_id"),
            Const("meta_event_type", "heartbeat"), Const("post_type", "meta_event"),
            Nested("status", "status", "HeartbeatStatus"), Req("interval", "interval")>>,
          BasicPostInit, EventCatch)

LifeCycleEvent ==
    Class("LifeCycleEvent", "event", "lifecycle",
          <<Req("time", "time"), Req("self_id", "self_id"),
            Const("meta_event_type", "lifecycle"), Const("post_type", "meta_event"),
            ReqEnum("sub_type", "sub_type", {"enable", "disable", "connect"})>>,
          BasicPostInit, EventCatch)

\* RequestEvent.__post_init__
RequestPostInit ==
    BasicPostInit \o
    <<Check("flag", "str"), Check("user_id", "int"), Check("comment", "str")>>

FriendRequestEvent ==
    Class("FriendRequestEvent", "event", "friend",
          <<Req("time", "time"), Req("self_id", "self_id"), Const("post_type", "request"),
            Const("request_type", "friend"), Req("flag", "flag"),
            Req("user_id", "user_id"), Req("comment", "comment")>>,
          RequestPostInit, KeyCatch)

GroupRequestEvent ==
    Class("GroupRequestEvent", "event", "group",
          <<Req("time", "time"), Req("self_id", "self_id"), Const("post_type", "request"),
            Const("request_type", "group"), Req("flag", "flag"),
            Req("user_id", "user_id"), Req("comment", "comment"),
            ReqEnum("sub_request_type", "sub_type", {"add", "invite"}),
            Req("group_id", "group_id")>>,
          RequestPostInit \o <<Check("group_id", "int")>>, EventCatch)

File ==
    Class("File", "value", "",
          <<Req("id", "id"), Req("name", "name"), Req("size", "size"),
            Req("busid", "busid")>>,
          <<Check("id", "int"), Check("name", "str"), Check("size", "int"),
            Check("busid", "int")>>,
          KeyCatch)

GroupUploadNoticeEvent ==
    Class("GroupUploadNoticeEvent", "event", "group_upload",
          <<Req("time", "time"),
            Req("self_id", "self_id"),
            Const("post_type", "notice"),
            Const("notice_type", "group_upload"),
            Req("group_id", "group_id"),
            Req("user_id", "user_id"),
            Nested("file_info", "file", "File")>>,
          BasicPostInit \o <<Check("group_id", "int"), Check("user_id", "int")>>, KeyCatch)

GroupAdminNoticeEvent ==
    Class("GroupAdminNoticeEvent", "event", "group_admin",
          <<Req("time", "time"),
            Req("self_id", "self_id"),
            Const("post_type", "notice"),
            Const("notice_type", "group_admin"),
            Req("group_id", "group_id"),
            Req("user_id", "user_id"),
            ReqEnum("sub_type", "sub_type", {"set", "unset"})>>,
          BasicPostInit \o <<Check("group_id", "int"), Check("user_id", "int")>>, EventCatch)

GroupDecreaseNoticeEvent ==
    Class("GroupDecreaseNoticeEvent", "event", "group_decrease",
          <<Req("time", "time"),
            Req("self_id", "self_id"),
            Const("post_type", "notice"),
            Const("notice_type", "group_decrease"),
            Req("group_id", "group_id"),
            Req("operator_id", "operator_id"),
            Req("user_id", "user_id"),
            ReqEnum("sub_type", "sub_type", {"leave", "kick", "kick_me"})>>,
          BasicPostInit \o <<Check("group_id", "int"), Check("operator_id", "int"), Check("user_id", "int")>>, EventCatch)

GroupIncreaseNoticeEvent ==
    Class("GroupIncreaseNoticeEvent", "event", "group_increase",
          <<Req("time", "time"),
            Req("self_id", "self_id"),
            Const("post_type", "notice"),
            Const("notice_type", "group_increase"),
            Req("group_id", "group_id"),
            Req("operator_id", "operator_id"),
            Req("user_id", "user_id"),
            ReqEnum("sub_type", "sub_type", {"approve", "invite"})>>,
          BasicPostInit \o <<Check("group_id", "int"), Check("operator_id", "int"), Check("user_id", "int")>>, EventCatch)

GroupBanNoticeEvent ==
    Class("GroupBanNoticeEvent", "event", "group_ban",
          <<Req("time", "time"),
            Req("self_id", "self_id"),
            Const("post_type", "notice"),
            Const("notice_type", "group_ban"),
            Req("group_id", "group_id"),
            Req("operator_id", "operator_id"),
            Req("user_id", "user_id"),
            Req("duration", "duration"),
            ReqEnum("sub_type", "sub_type", {"ban", "lift_ban"})>>,
          BasicPostInit \o <<Check("group_id", "int"), Check("operator_id", "int"), Check("user_id", "int"), Check("duration", "int")>>, EventCatch)

GroupRecallNoticeEvent ==
    Class("GroupRecallNoticeEvent", "event", "group_recall",
          <<Req("time", "time"),
            Req("self_id", "self_id"),
            Const("post_type", "notice"),
            Const("notice_type", "group_recall"),
            Req("group_id", "group_id"),
            Req("user_id", "user_id"),
            Req("operator_id", "operator_id"),
            Req("message_id", "message_id")>>,
          BasicPostInit \o <<Check("group_id", "int"), Check("operator_id", "int"), Check("user_id", "int"), Check("message_id", "int")>>, KeyCatch)

GroupCardNoticeEvent ==
    Class("GroupCardNoticeEvent", "event", "group_card",
          <<Req("time", "time"),
            Req("self_id", "self_id"),
            Const("post_type", "notice"),
            Const("notice_type", "group_card"),
            Req("group_id", "group_id"),
            Req("user_id", "user_id"),
            Req("card_new", "card_new"),
            Req("card_old", "card_old")>>,
          BasicPostInit \o <<Check("group_id", "int"), Check("user_id", "int"), Check("card_new", "str"), Check("card_old", "str")>>, KeyCatch)

GroupMsgEmojiLikeNoticeEvent ==
    Class("GroupMsgEmojiLikeNoticeEvent", "event", "group_msg_emoji_like",
          <<Req("time", "time"),
            Req("self_id", "self_id"),
            Const("post_type", "notice"),
            Const("notice_type", "group_msg_emoji_like"),
            Req("group_id", "group_id"),
            Req("message_id", "message_id"),
            Req("count", "count"),
            Opt("user_id", "user_id"),
            Opt("operator_id", "operator_id"),
            Opt("likes", "likes"),
            Opt("code", "code")>>,
          BasicPostInit \o <<Check("group_id", "int"), Check("message_id", "int"), Check("count", "int")>>, KeyCatch)

FriendAddNoticeEvent ==
    Class("FriendAddNoticeEvent", "event", "friend_add",
          <<Req("time", "time"),
            Req("self_id", "self_id"),
            Const("post_type", "notice"),
            Const("notice_type", "friend_add"),
            Req("user_id", "user_id")>>,
          BasicPostInit \o <<Check("user_id", "int")>>, KeyCatch)

FriendRecallNoticeEvent ==
    Class("FriendRecallNoticeEvent", "event", "friend_recall",
          <<Req("time", "time"),
            Req("self_id", "self_id"),
            Const("post_type", "notice"),
            Const("notice_type", "friend_recall"),
            Req("user_id", "user_id"),
            Req("message_id", "message_id")>>,
          BasicPostInit \o <<Check("user_id", "int"), Check("message_id", "int")>>, KeyCatch)

LuckyKingNoticeEvent ==
    Class("LuckyKingNoticeEvent", "event", "lucky_king",
          <<Req("time", "time"),
            Req("self_id", "self_id"),
            Const("post_type", "notice"),
            Const("notice_type", "lucky_king"),
            Req("group_id", "group_id"),
            Req("user_id", "user_id"),
            Req("target_id", "target_id")>>,
          BasicPostInit \o <<Check("group_id", "int"), Check("user_id", "int"), Check("target_id", "int")>>, KeyCatch)

EssenceNoticeEvent ==
    Class("EssenceNoticeEvent", "event", "essence",
          <<Req("time", "time"),
            Req("self_id", "self_id"),
            Const("post_type", "notice"),
            Const("notice_type", "essence"),
            Req("group_id", "group_id"),
            Req("message_id", "message_id"),
            Req("sender_id", "sender_id"),
            Req("operator_id", "operator_id"),
            ReqEnum("sub_type", "sub_type", {"add", "delete"})>>,
          BasicPostInit \o <<Check("group_id", "int"), Check("message_id", "int"), Check("sender_id", "int"), Check("operator_id", "int")>>, EventCatch)

HonorNoticeEvent ==
    Class("HonorNoticeEvent", "event", "honor",
          <<Req("time", "time"),
            Req("self_id", "self_id"),
            Const("post_type", "notice"),
            Const("notice_type", "honor"),
            Req("group_id", "group_id"),
            Req("user_id", "user_id"),
            Req("honor_type", "honor_type")>>,
          BasicPostInit \o <<Check("group_id", "int"), Check("user_id", "int"), Check("honor_type", "str")>>, KeyCatch)

PokeNoticeEvent ==
    Class("PokeNoticeEvent", "event", "poke",
          <<Req("time", "time"),
            Req("self_id", "self_id"),
            Const("post_type", "notice"),
            Const("notice_type", "poke"),
            Req("user_id", "user_id"),
            Req("target_id", "target_id"),
            Opt("group_id", "group_id")>>,
          BasicPostInit \o <<Check("user_id", "int"), Check("target_id", "int")>>, EventCatch)

\* The classes a registry or a from_json names, by class name.
Classes ==
    ElementClasses @@
    [FriendSender |-> FriendSender,
     GroupSender |-> GroupSender,
     GroupMessageEvent |-> GroupMessageEvent,
     FriendMessageEvent |-> FriendMessageEvent,
     HeartbeatStatus |-> HeartbeatStatus,
     HeartbeatEvent |-> HeartbeatEvent,
     LifeCycleEvent |-> LifeCycleEvent,
     FriendRequestEvent |-> FriendRequestEvent,
     GroupRequestEvent |-> GroupRequestEvent,
     File |-> File,
     GroupUploadNoticeEvent |-> GroupUploadNoticeEvent,
     GroupAdminNoticeEvent |-> GroupAdminNoticeEvent,
     GroupDecreaseNoticeEvent |-> GroupDecreaseNoticeEvent,
     GroupIncreaseNoticeEvent |-> GroupIncreaseNoticeEvent,
     GroupBanNoticeEvent |-> GroupBanNoticeEvent,
     GroupRecallNoticeEvent |-> GroupRecallNoticeEvent,
     GroupCardNoticeEvent |-> GroupCardNoticeEvent,
     GroupMsgEmojiLikeNoticeEvent |-> GroupMsgEmojiLikeNoticeEvent,
     FriendAddNoticeEvent |-> FriendAddNoticeEvent,
     FriendRecallNoticeEvent |-> FriendRecallNoticeEvent,
     LuckyKingNoticeEvent |-> LuckyKingNoticeEvent,
     EssenceNoticeEvent |-> EssenceNoticeEvent,
     HonorNoticeEvent |-> HonorNoticeEvent,
     PokeNoticeEvent |-> PokeNoticeEvent]

(***************************************************************************)
(* Decoding.                                                               *)
(***************************************************************************)
RECURSIVE parse_element(_, _), parse_elements(_, _), from_json(_, _, _),
          EvalArgs(_, _, _, _)

NoArgs == [a \in {} |-> None]

\* The value a class builds from its evaluated keyword arguments.
Instance(class, vals) ==
    IF class.kind = "element"
    THEN [cls |-> class.name, element_type |-> class.tag, element_data |-> vals]
    ELSE [cls |-> class.name, fields |-> vals]

\* Index of the first assertion of __post_init__ that fails, 0 when none does.
PostInit(class, vals) ==
    LET bad == {i \in 1..Len(class.post_init) :
                    ~Holds(class.post_init[i].kind, vals[class.post_init[i].arg])}
    IN  IF bad = {} THEN 0 ELSE CHOOSE i \in bad : \A j \in bad : i <= j

\* Variant: from_json has no except clause.
Handle_Bare(class, e) == Err(e)

\* The except clauses around cls(...): a listed type is re-raised as its
\* replacement, any other error propagates as it is.
Handle(class, e) ==
    IF e[1].type \in DOMAIN class.catches
    THEN Err(RaiseFrom(class.catches[e[1].type], class.name \o ".from_json", e[1].arg, e))
    ELSE Err(e)

\* The expression of one keyword argument of cls(...).
EvalArg(class, a, json_dict, element_registry) ==
    LET site == class.name \o ".from_json"
    IN  CASE a.how = "const" -> Ok(a.key)
          [] a.how = "opt" ->
                IF a.key \in DOMAIN json_dict THEN Ok(json_dict[a.key])
                ELSE IF a.conv = "object" THEN Ok(NoneObject)
                ELSE Ok(None)
          [] a.how = "req" ->
                IF a.key \notin DOMAIN json_dict THEN Err(Raise("KeyError", site, a.key))
                ELSE CASE a.conv = "raw" -> Ok(json_dict[a.key])
                       [] a.conv = "enum" ->
                             IF json_dict[a.key] \in a.values THEN Ok(json_dict[a.key])
                             ELSE Err(Raise("ValueError", site, a.key))
                       [] a.conv = "elements" ->
                             parse_elements(element_registry, json_dict[a.key])
                       [] OTHER ->
                             from_json(Classes[a.conv], json_dict[a.key], element_registry)

\* Left-to-right evaluation: the first argument that raises ends the call,
\* the arguments after it are not evaluated.
Keyword(a, r, rest) ==
    IF ~r.ok THEN r
    ELSE IF ~rest.ok THEN rest
    ELSE Ok((a.arg :> r.val) @@ rest.val)

\* The keyword arguments of cls(...), evaluated left to right from args[i] on.
EvalArgs(class, json_dict, element_registry, i) ==
    IF i > Len(class.args) THEN Ok(NoArgs)
    ELSE Keyword(class.args[i],
                 EvalArg(class, class.args[i], json_dict, element_registry),
                 EvalArgs(class, json_dict, element_registry, i + 1))

\* __init__ and __post_init__ once the arguments are there.
New(class, vals, a) ==
    IF ~a.ok THEN Handle(class, a.exc)
    ELSE IF PostInit(class, vals @@ a.val) # 0
    THEN Handle(class, Raise("AssertionError", class.name \o ".__post_init__",
                             class.post_init[PostInit(class, vals @@ a.val)].arg))
    ELSE Ok(Instance(class, vals @@ a.val))

\* cls(...) inside the try of from_json: the arguments, then __post_init__.
Construct(class, json_dict, element_registry, vals) ==
    New(class, vals, EvalArgs(class, json_dict, element_registry, 1))

MusicElement_from_json(json_dict) ==
    Err(Raise("SendElementOnlyError", "MusicElement.from_json", ""))

\* ForwardElementData.from_json once the content list comprehension has run:
\* the try that reads id comes after it.
ForwardElementData_from_json(json_dict, element_registry, raw_content) ==
    IF ~raw_content.ok THEN raw_content
    ELSE Construct(ForwardElement, json_dict, element_registry,
                   [has_content |-> "content" \in DOMAIN json_dict,
                    content |-> raw_content.val])

\* Variant: a depth guard refuses a forward whose content holds a forward that
\* has content of its own.
ForwardElement_from_json_Guarded(json_dict, element_registry) ==
    IF /\ "content" \in DOMAIN json_dict
       /\ \E i \in 1..Len(json_dict["content"]) :
             /\ json_dict["content"][i]["type"] = "forward"
             /\ "content" \in DOMAIN json_dict["content"][i]["data"]
    THEN Err(Raise("ValueError", "ForwardElementData.from_json", "depth"))
    ELSE ForwardElementData_from_json(json_dict, element_registry,
             IF "content" \in DOMAIN json_dict
             THEN parse_elements(element_registry, json_dict["content"])
             ELSE Ok(<<>>))

\* ForwardElement.from_json over ForwardElementData.from_json: the content is
\* decoded first, outside the try.
ForwardElement_from_json(json_dict, element_registry) ==
    ForwardElementData_from_json(json_dict, element_registry,
        IF "content" \in DOMAIN json_dict
        THEN parse_elements(element_registry, json_dict["content"])
        ELSE Ok(<<>>))

from_json(class, json_dict, element_registry) ==
    CASE class.name = "MusicElement" -> MusicElement_from_json(json_dict)
      [] class.name = "ForwardElement" ->
            ForwardElement_from_json(json_dict, element_registry)
      [] OTHER -> Construct(class, json_dict, element_registry, NoArgs)

\* Variant: the comprehension collects the items in reverse.
Comprehension_Reversed(h, t) ==
    IF ~h.ok THEN h
    ELSE IF ~t.ok THEN t
    ELSE Ok(t.val \o <<h.val>>)

\* Variant: the comprehension leaves out an item that raises.
Comprehension_Skipping(h, t) ==
    IF ~t.ok THEN t
    ELSE IF ~h.ok THEN t
    ELSE Ok(<<h.val>> \o t.val)

\* One step of a list comprehension: the item, then the items after it.
Comprehension(h, t) ==
    IF ~h.ok THEN h
    ELSE IF ~t.ok THEN t
    ELSE Ok(<<h.val>> \o t.val)

\* [Element.parse_element(item) for item in list]: in list order, up to the
\* first item that raises.
parse_elements(element_registry, list) ==
    IF list = <<>> THEN Ok(<<>>)
    ELSE Comprehension(parse_element(element_registry, Head(list)),
                       parse_elements(element_registry, Tail(list)))

\* Variant: the dispatch wraps whatever the decoder raised.
WrapException_Always(site, event_type, r) ==
    IF ~r.ok THEN Err(RaiseFrom("ParseError", site, event_type, r.exc)) ELSE r

\* try: return target(...) except Exception as e: raise ParseError(...) from e
WrapException(site, event_type, r) ==
    IF ~r.ok /\ IsException(r.exc[1].type)
    THEN Err(RaiseFrom("ParseError", site, event_type, r.exc))
    ELSE r

\* Element.parse_element
parse_element(element_registry, data) ==
    IF "type" \notin DOMAIN data
    THEN Err(RaiseFrom("ParameterError", "Element.parse_element", "type",
                       Raise("KeyError", "Element.parse_element", "type")))
    ELSE IF data["type"] \notin ElementType
    THEN Err(RaiseFrom("ParameterError", "Element.parse_element", data["type"],
                       Raise("ValueError", "Element.parse_element", data["type"])))
    ELSE IF "data" \notin DOMAIN data
    THEN Err(RaiseFrom("ParameterError", "Element.parse_element", "data",
                       Raise("KeyError", "Element.parse_element", "data")))
    ELSE IF resolve(element_registry, data["type"]) # None
    THEN WrapException("Element.parse_element", data["type"],
             from_json(Classes[resolve(element_registry, data["type"])], data["data"],
                       element_registry))
    ELSE Err(Raise("UnregisteredElementError", "Element.parse_element", data["type"]))

(***************************************************************************)
(* The first revision of the element module (py-napcat/model/element.py): *)
(* a static parse_element that selects the class with a match statement,  *)
(* no registry and no ParseError.                                          *)
(***************************************************************************)
\* match element_type: case ElementType.X: return XElement.from_json(...)
MatchClass ==
    [text |-> "TextElement", at |-> "AtElement", reply |-> "ReplyElement",
     face |-> "FaceElement", mface |-> "MFaceElement", dice |-> "DiceElement",
     rps |-> "RPSElement", poke |-> "PokeElement", image |-> "ImageElement",
     record |-> "RecordElement", video |-> "VideoElement", file |-> "FileElement",
     json |-> "JsonElement", music |-> "MusicElement", forward |-> "ForwardElement"]

\* RPSElement.RPSResult of the first revision.
LegacyRPSResult == [STONE |-> "1", SHEARS |-> "2", CLOTH |-> "3"]

\* RPSResult(value).name in the first revision.
LegacyRPSResultName(v) == CHOOSE n \in DOMAIN LegacyRPSResult : LegacyRPSResult[n] = v

\* The data classes whose from_json reads other keys than the later revision.
LegacyArgs ==
    [face |-> <<Req("id", "id"), OptObject("raw", "raw"), Opt("result_id", "result_id"),
                Opt("chain_count", "chain_count")>>,
     mface |-> <<Req("emoji_id", "emoji_id"), Req("emoji_package_id", "emoji_package_id"),
                 Opt("key", "key"), Const("summary", None)>>,
     rps |-> <<ReqEnum("result", "result",
                       {LegacyRPSResult[n] : n \in DOMAIN LegacyRPSResult})>>]

\* The class of the first revision: the same fields, no __post_init__.
LegacyClass(element_type) ==
    [ElementClasses[MatchClass[element_type]] EXCEPT
        !.post_init = <<>>,
        !.args = IF element_type \in DOMAIN LegacyArgs THEN LegacyArgs[element_type] ELSE @]

RECURSIVE Legacy_parse_element(_), Legacy_parse_elements(_)

\* ForwardElementData.from_json of the first revision.
LegacyForwardElementData_from_json(json_dict, raw_content) ==
    IF ~raw_content.ok THEN raw_content
    ELSE Construct(LegacyClass("forward"), json_dict, EmptyRegistries["ElementType"],
                   [has_content |-> "content" \in DOMAIN json_dict,
                    content |-> raw_content.val])

\* XElement.from_json(element_data) of the first revision.
Legacy_from_json(element_type, json_dict) ==
    CASE element_type = "music" ->
            Err(Raise("SendElementOnlyError", "MusicElement.from_json", ""))
      [] element_type = "forward" ->
            LegacyForwardElementData_from_json(json_dict,
                IF "content" \in DOMAIN json_dict
                THEN Legacy_parse_elements(json_dict["content"])
                ELSE Ok(<<>>))
      [] OTHER -> Construct(LegacyClass(element_type), json_dict,
                            EmptyRegistries["ElementType"], NoArgs)

Legacy_parse_elements(list) ==
    IF list = <<>> THEN Ok(<<>>)
    ELSE Comprehension(Legacy_parse_element(Head(list)), Legacy_parse_elements(Tail(list)))

\* Element.parse_element of the first revision: the try catches KeyError and
\* TypeError, so the ValueError of an unknown type leaves it as it is, and
\* data["data"] is read after the try.
Legacy_parse_element(data) ==
    IF "type" \notin DOMAIN data
    THEN Err(RaiseFrom("ParameterError", "Element.parse_element", "type",
                       Raise("KeyError", "Element.parse_element", "type")))
    ELSE IF data["type"] \notin ElementType
    THEN Err(Raise("ValueError", "Element.parse_element", data["type"]))
    ELSE IF "data" \notin DOMAIN data
    THEN Err(Raise("KeyError", "Element.parse_element", "data"))
    ELSE Legacy_from_json(data["type"], data["data"])

\* The root classes: the discriminator field each parse_event reads and the
\* registry it resolves against.
Root(name, key, enum) == [name |-> name, key |-> key, enum |-> enum]

BasicEvent == Root("BasicEvent", "post_type", "PostType")

MessageEvent == Root("MessageEvent", "message_type", "MessageType")

MetaEvent == Root("MetaEvent", "meta_event_type", "MetaType")

NoticeEvent == Root("NoticeEvent", "notice_type", "NoticeType")

RequestEvent == Root("RequestEvent", "request_type", "RequestType")

Roots ==
    [MessageEvent |-> MessageEvent, MetaEvent |-> MetaEvent,
     NoticeEvent |-> NoticeEvent, RequestEvent |-> RequestEvent]

\* Variant: a value outside the enum is reported as a discriminator without a
\* decoder.
Discriminator_Unregistered(root, data) ==
    IF root.key \notin DOMAIN data
    THEN Err(RaiseFrom("ParameterError", root.name \o ".parse_event", root.key,
                       Raise("KeyError", root.name \o ".parse_event", root.key)))
    ELSE IF data[root.key] \notin RegistryEnum[root.enum]
    THEN Err(Raise("UnregisteredEventError", root.name \o ".parse_event", data[root.key]))
    ELSE Ok(data[root.key])

\* The try block that maps the discriminator field to its enum.
Discriminator(root, data) ==
    LET site == root.name \o ".parse_event"
    IN  IF root.key \notin DOMAIN data
        THEN Err(RaiseFrom("ParameterError", site, root.key,
                           Raise("KeyError", site, root.key)))
        ELSE IF data[root.key] \notin RegistryEnum[root.enum]
        THEN Err(RaiseFrom("ParameterError", site, data[root.key],
                           Raise("ValueError", site, data[root.key])))
        ELSE Ok(data[root.key])

\* Variant: the root consumes its discriminator and hands the decoder the rest.
RootParseEvent_Consumed(root, regs, data) ==
    IF ~Discriminator(root, data).ok THEN Discriminator(root, data)
    ELSE IF resolve(regs[root.enum], data[root.key]) # None
    THEN WrapException(root.name \o ".parse_event", data[root.key],
             from_json(Classes[resolve(regs[root.enum], data[root.key])],
                       [k \in DOMAIN data \ {root.key} |-> data[k]],
                       regs["ElementType"]))
    ELSE Err(Raise("UnregisteredEventError", root.name \o ".parse_event", data[root.key]))

\* MessageEvent / MetaEvent / NoticeEvent / RequestEvent.parse_event
RootParseEvent(root, regs, data) ==
    LET site == root.name \o ".parse_event"
        event_type == Discriminator(root, data)
    IN  IF ~event_type.ok THEN event_type
        ELSE LET target_class == resolve(regs[root.enum], event_type.val)
             IN  IF target_class # None
                 THEN WrapException(site, event_type.val,
                          from_json(Classes[target_class], data, regs["ElementType"]))
                 ELSE Err(Raise("UnregisteredEventError", site, event_type.val))

\* BasicEvent.parse_event
parse_event(regs, data) ==
    LET site == "BasicEvent.parse_event"
        event_type == Discriminator(BasicEvent, data)
    IN  IF ~event_type.ok THEN event_type
        ELSE LET target_class == resolve(regs["PostType"], event_type.val)
             IN  IF target_class # None
                 THEN WrapException(site, event_type.val,
                          RootParseEvent(Roots[target_class], regs, data))
                 ELSE Err(Raise("UnregisteredEventError", site, event_type.val))

(***************************************************************************)
(* Text projection.                                                        *)
(***************************************************************************)
RPSResultName(v) == CHOOSE n \in DOMAIN RPSResult : RPSResult[n] = v

\* FaceElement.text: the label of the raw payload when raw is a dict whose
\* faceText is neither None nor empty, else the template with the id.
FaceElement_text(d) ==
    IF d["raw"].dict /\ d["raw"].faceText # None /\ d["raw"].faceText # ""
    THEN d["raw"].faceText
    ELSE "[face](" \o d["id"] \o ")"

\* Variant: the summary is used whenever it is not None.
ImageElement_text_AnySummary(d) ==
    IF d["summary"] # None THEN d["summary"] ELSE "[image]"

\* ImageElement.text
ImageElement_text(d) ==
    IF d["summary"] # None /\ d["summary"] # "" THEN d["summary"]
    ELSE "[image]"

\* Element.text of each element class.
text(element) ==
    LET d == element.element_data
    IN  CASE element.cls = "TextElement" -> d["text"]
          [] element.cls = "AtElement" -> "@" \o d["target_user_id"]
          [] element.cls = "ReplyElement" -> "[reply](" \o d["target_message_id"] \o ")"
          [] element.cls = "FaceElement" -> FaceElement_text(d)
          [] element.cls = "MFaceElement" ->
                IF d["summary"] # None THEN d["summary"]
                ELSE "[face](" \o d["emoji_id"] \o ")"
          [] element.cls = "DiceElement" -> "[dice](" \o PyStr(d["result"]) \o ")"
          [] element.cls = "RPSElement" -> "[rps](" \o RPSResultName(d["result"]) \o ")"
          [] element.cls = "PokeElement" -> "[poke]"
          [] element.cls = "ImageElement" -> ImageElement_text(d)
          [] element.cls = "RecordElement" -> "[record]"
          [] element.cls = "VideoElement" -> "[video]"
          [] element.cls = "FileElement" -> "[file]"
          [] element.cls = "JsonElement" -> "[JSON]"
          [] element.cls = "MusicElement" -> "music"
          [] element.cls = "ForwardElement" -> "[forward]"

(***************************************************************************)
(* Encoding of events.  The classes of py_napcat/model/notice_event.py and *)
(* py_napcat/model/request_event.py derive from BasicEvent without a       *)
(* registry and define to_json themselves.                                  *)
(***************************************************************************)
\* NoticeEvent.from_json: cls(time, self_id, NoticeType(notice_type)), then
\* BasicEvent.__init__(time, PostType.NOTICE, self_id) and its __post_init__.
StaticNoticeEvent ==
    Class("NoticeEvent", "event", "notice",
          <<Req("time", "time"), Req("self_id", "self_id"),
            ReqEnum("notice_type", "notice_type", NoticeType),
            Const("post_type", "notice")>>,
          BasicPostInit, NoCatch)

\* RequestEvent.from_json of py_napcat/model/request_event.py.
StaticRequestEvent ==
    Class("RequestEvent", "event", "request",
          <<Req("time", "time"), Req("self_id", "self_id"),
            ReqEnum("request_type", "request_type", RequestType),
            Req("flag", "flag"), Req("user_id", "user_id"), Req("comment", "comment"),
            Const("post_type", "request")>>,
          BasicPostInit, NoCatch)

StaticEvents == [NoticeEvent |-> StaticNoticeEvent, RequestEvent |-> StaticRequestEvent]

\* BasicEvent.to_json
BasicEvent_to_json ==
    Err(Raise("EventReceivedOnlyError", "BasicEvent.to_json", ""))

\* NoticeEvent.to_json of py_napcat/model/notice_event.py builds the dict
\* without calling BasicEvent.to_json.
StaticNoticeEvent_to_json(event) ==
    Ok([time |-> event.fields["time"], post_type |-> event.fields["post_type"],
        self_id |-> event.fields["self_id"],
        notice_type |-> event.fields["notice_type"]])

\* event.to_json(): RequestEvent.to_json starts with super().to_json(), and the
\* classes decoded through the registries inherit BasicEvent.to_json.
Event_to_json(event) ==
    IF event.cls = "NoticeEvent" THEN StaticNoticeEvent_to_json(event)
    ELSE BasicEvent_to_json

\* One key of the dict a to_json builds: always, when the field is not None,
\* or when the field is truthy.
Emit(key, field, when) == [key |-> key, field |-> field, when |-> when]

\* XElementData.to_json of each element class whose instances are decoded.
\* MFaceElementData returns asdict(self) without the None values, so its keys
\* are the field names; DiceElementData and RPSElementData return {}.
ElementData_to_json_keys ==
    [TextElement |-> <<Emit("text", "text", "always")>>,
     AtElement |-> <<Emit("qq", "target_user_id", "always")>>,
     ReplyElement |-> <<Emit("id", "target_message_id", "always")>>,
     FaceElement |-> <<Emit("id", "id", "always")>>,
     MFaceElement |-> <<Emit("emoji_id", "emoji_id", "not_none"),
                        Emit("emoji_package_id", "emoji_package_id", "not_none"),
                        Emit("key", "key", "not_none"),
                        Emit("summary", "summary", "not_none")>>,
     DiceElement |-> <<>>,
     RPSElement |-> <<>>,
     PokeElement |-> <<Emit("type", "type", "always"), Emit("id", "id", "always")>>,
     ImageElement |-> <<Emit("file", "file", "always"), Emit("url", "url", "not_none"),
                        Emit("summary", "summary", "not_none"),
                        Emit("sub_type", "sub_type", "not_none")>>,
     RecordElement |-> <<Emit("file", "file", "always")>>,
     VideoElement |-> <<Emit("file", "file", "always"), Emit("thumb", "thumb", "truthy")>>,
     FileElement |-> <<Emit("file", "file", "always"), Emit("name", "name", "not_none")>>,
     JsonElement |-> <<Emit("data", "data", "always")>>,
     ForwardElement |-> <<Emit("id", "id", "always")>>]

\* Variant: to_json writes every key, whatever the value.
Emitted_Always(e, v) == TRUE

\* Whether to_json writes the key for this value.
Emitted(e, v) ==
    CASE e.when = "always" -> TRUE
      [] e.when = "not_none" -> v # None
      [] e.when = "truthy" -> v # None /\ v # ""

\* The dict a to_json builds from the fields d of the object.
Written(keys, d) ==
    LET written == {i \in 1..Len(keys) : Emitted(keys[i], d[keys[i].field])}
    IN  [k \in {keys[i].key : i \in written} |->
            d[keys[CHOOSE i \in written : keys[i].key = k].field]]

\* self.element_data.to_json()
ElementData_to_json(element) ==
    Written(ElementData_to_json_keys[element.cls], element.element_data)

\* GroupSender.to_json
GroupSender_to_json(sender) ==
    Ok(Written(<<Emit("user_id", "user_id", "always"),
                 Emit("nickname", "nickname", "always"), Emit("sex", "sex", "always"),
                 Emit("role", "role", "always"), Emit("card", "card", "not_none")>>,
               sender.fields))

\* Element.to_json
Element_to_json(element) ==
    [type |-> element.element_type, data |-> ElementData_to_json(element)]

\* element.text as the call ends: RPSElement.text reads
\* self.element_data.result.name, an attribute None does not have.
Element_text(element) ==
    IF element.cls = "RPSElement" /\ element.element_data["result"] = None
    THEN Err(Raise("AttributeError", "RPSElement.text", "name"))
    ELSE Ok(text(element))

\* sep.join(list)
RECURSIVE join(_, _)
join(sep, list) ==
    IF list = <<>> THEN ""
    ELSE IF Len(list) = 1 THEN list[1]
    ELSE list[1] \o sep \o join(sep, Tail(list))

\* Variant: the texts are concatenated without a separator.
MessageEvent_text_Unspaced(event) ==
    join("", [i \in 1..Len(event.fields["message"]) |-> text(event.fields["message"][i])])

\* MessageEvent.text
MessageEvent_text(event) ==
    join(" ", [i \in 1..Len(event.fields["message"]) |-> text(event.fields["message"][i])])

(***************************************************************************)
(* Wire payloads handed to the decoders.                                   *)
(***************************************************************************)
El(type, data) == [type |-> type, data |-> data]

EmptyDict == [k \in {} |-> None]

TextHi == El("text", [text |-> "hi"])

ReplyTo == El("reply", [id |-> "576826342"])

MusicShare == El("music", [type |-> "qq", id |-> "1"])

TextNoField == El("text", EmptyDict)

ForwardRef == El("forward", [id |-> "f1"])

ForwardWith(content) == El("forward", [id |-> "f1", content |-> content])

\* The elements nested payloads are built from.
NarrowLeaves == {TextHi, ReplyTo, MusicShare, TextNoField, ForwardRef}

\* Element payloads of exactly n elements, and arrays of them of n in total.
RECURSIVE Trees(_), Forests(_)
Trees(n) ==
    (IF n = 1 THEN NarrowLeaves ELSE {}) \cup {ForwardWith(f) : f \in Forests(n - 1)}

Forests(n) ==
    IF n = 0 THEN {<<>>}
    ELSE UNION {{<<t>> \o f : t \in Trees(k), f \in Forests(n - k)} : k \in 1..n}

\* One payload of every element type, well-formed and not.
WideLeaves ==
    {El("text", [text |-> ""]), El("text", [text |-> "#7"]),
     El("at", [qq |-> "all"]), El("at", EmptyDict),
     El("reply", EmptyDict),
     El("face", [id |-> "298", raw |-> [dict |-> TRUE, faceText |-> "[yuanbao]"]]),
     El("face", [id |-> "298", raw |-> [dict |-> TRUE, faceText |-> ""]]),
     El("face", [id |-> "298", raw |-> [dict |-> TRUE, faceText |-> None]]),
     El("face", [id |-> "298", raw |-> [dict |-> FALSE, faceText |-> None]]),
     El("face", [id |-> "298"]),
     El("mface", [emojiId |-> "e1", emojiPackageId |-> "p1", key |-> "k"]),
     El("mface", [emojiId |-> "e1"]),
     El("dice", [result |-> "1"]), El("dice", EmptyDict),
     El("rps", [result |-> "1"]), El("rps", [result |-> "2"]), El("rps", [result |-> "3"]),
     El("rps", [result |-> "4"]), El("rps", EmptyDict),
     El("poke", [type |-> "1", id |-> "1"]), El("poke", [type |-> "1"]),
     El("image", [summary |-> "[hungry]", file |-> "123.jpg", sub_type |-> "#7",
                  url |-> "123", file_size |-> "17552"]),
     El("image", [summary |-> "", file |-> "123.jpg"]),
     El("image", [file |-> "123.jpg"]), El("image", [url |-> "123"]),
     El("image", [file |-> "123.jpg", url |-> "123", file_size |-> "17552", key |-> "k",
                  emoji_id |-> "e1", emoji_package_id |-> "p1"]),
     El("record", [file |-> "r.amr"]), El("video", [file |-> "v.mp4"]),
     El("file", [file |-> "f.txt"]), El("json", [data |-> "{}"]),
     El("forward", [content |-> <<TextHi>>]),
     El("sticker", [id |-> "1"]), [data |-> [text |-> "hi"]], [type |-> "text"]}

ElementPayloads == WideLeaves \cup UNION {Trees(n) : n \in 1..MaxNodes}

MessageArrays == UNION {Forests(n) : n \in 0..MaxNodes} \cup {<<e>> : e \in WideLeaves}

(***************************************************************************)
(* Event payloads: one well-formed payload per concrete class, and the     *)
(* payloads one change away from it.                                       *)
(***************************************************************************)
Base == [time |-> "#111", self_id |-> "#111"]

GroupSenderJson ==
    [user_id |-> "#111", nickname |-> "111", card |-> "c", role |-> "member",
     sex |-> "unknown"]

FriendSenderJson == [user_id |-> "#111", nickname |-> "n", sex |-> "male"]

GroupMessage(message) ==
    Base @@
    [post_type |-> "message", message_type |-> "group", message_id |-> "#111",
     user_id |-> "#111", font |-> "#14", raw_message |-> "raw", sub_type |-> "normal",
     group_id |-> "#111", sender |-> GroupSenderJson, message |-> message]

FriendMessage(message) ==
    Base @@
    [post_type |-> "message", message_type |-> "private", message_id |-> "#111",
     user_id |-> "#111", font |-> "#14", raw_message |-> "raw", sub_type |-> "friend",
     target_id |-> "#111", sender |-> FriendSenderJson, message |-> message]

MetaPayloads ==
    {Base @@ [post_type |-> "meta_event", meta_event_type |-> "heartbeat",
              status |-> [online |-> "#True", good |-> "#True"], interval |-> "#300000"],
     Base @@ [post_type |-> "meta_event", meta_event_type |-> "lifecycle",
              sub_type |-> "connect"]}

RequestPayloads ==
    {Base @@ [post_type |-> "request", request_type |-> "friend", flag |-> "fl",
              user_id |-> "#111", comment |-> "hello"],
     Base @@ [post_type |-> "request", request_type |-> "group", flag |-> "fl",
              user_id |-> "#111", comment |-> "hello", sub_type |-> "add",
              group_id |-> "#111"]}

Notice(notice_type, rest) == Base @@ [post_type |-> "notice", notice_type |-> notice_type] @@ rest

Ids == [group_id |-> "#111", user_id |-> "#111", operator_id |-> "#111",
        message_id |-> "#111", target_id |-> "#111", sender_id |-> "#111"]

Pick(keys) == [k \in keys |-> Ids[k]]

NoticePayloads ==
    {Notice("group_upload", Pick({"group_id", "user_id"}) @@
            [file |-> [id |-> "#7", name |-> "a.txt", size |-> "#14", busid |-> "#7"]]),
     Notice("group_admin", Pick({"group_id", "user_id"}) @@ [sub_type |-> "set"]),
     Notice("group_admin", Pick({"group_id", "user_id"}) @@ [sub_type |-> "unset"]),
     Notice("group_decrease", Pick({"group_id", "user_id", "operator_id"}) @@
            [sub_type |-> "kick"]),
     Notice("group_increase", Pick({"group_id", "user_id", "operator_id"}) @@
            [sub_type |-> "invite"]),
     Notice("group_ban", Pick({"group_id", "user_id", "operator_id"}) @@
            [sub_type |-> "ban", duration |-> "#14"]),
     Notice("group_recall", Pick({"group_id", "user_id", "operator_id", "message_id"})),
     Notice("group_card", Pick({"group_id", "user_id"}) @@
            [card_new |-> "new", card_old |-> "old"]),
     Notice("group_msg_emoji_like", Pick({"group_id", "message_id"}) @@ [count |-> "#7"]),
     Notice("friend_add", Pick({"user_id"})),
     Notice("friend_recall", Pick({"user_id", "message_id"})),
     Notice("lucky_king", Pick({"group_id", "user_id", "target_id"})),
     Notice("essence", Pick({"group_id", "message_id", "sender_id", "operator_id"}) @@
            [sub_type |-> "add"]),
     Notice("honor", Pick({"group_id", "user_id"}) @@ [honor_type |-> "talkative"]),
     Notice("poke", Pick({"user_id", "target_id"}))}

\* The well-formed payloads the changes below start from.
Templates ==
    {GroupMessage(<<ReplyTo, TextHi>>), FriendMessage(<<TextHi>>)}
        \cup MetaPayloads \cup RequestPayloads \cup NoticePayloads

\* Keys that hold an object or an array, not a scalar.
StructuredKeys == {"message", "sender", "status", "file"}

\* data without key k.
Remove(data, k) == [j \in DOMAIN data \ {k} |-> data[j]]

\* data with the scalar under k replaced by one of another JSON type.
Retype(data, k) == [data EXCEPT ![k] = IF IsInt(data[k]) THEN "oops" ELSE "#7"]

Reroute(data, post_type) == [data EXCEPT !["post_type"] = post_type]

MissingKey == UNION {{Remove(t, k) : k \in DOMAIN t} : t \in Templates}

WrongValue ==
    UNION {{Retype(t, k) : k \in DOMAIN t \ StructuredKeys} : t \in Templates}

Rerouted == {Reroute(t, p) : t \in Templates, p \in PostType \cup {"bogus"}}

WithMessage ==
    {GroupMessage(m) : m \in MessageArrays} \cup {FriendMessage(m) : m \in MessageArrays}

\* The message payloads of tests/message_event_test.py: the sender of a group
\* message holds user_id, nickname, card and role, the sender of a private one
\* user_id, nickname and card.
TestSenders ==
    {[GroupMessage(<<ReplyTo, TextHi>>) EXCEPT
         !["sender"] = [user_id |-> "#111", nickname |-> "111", card |-> "c",
                        role |-> "member"]],
     [FriendMessage(<<TextHi>>) EXCEPT
         !["sender"] = [user_id |-> "#111", nickname |-> "n", card |-> ""]]}

\* Message payloads with two defects: an entry of message that does not decode
\* and a key missing, read before message (time, raw_message) or after it
\* (sub_type, sender).
TwoDefects ==
    {Remove(m, k) : m \in {GroupMessage(<<TextHi, TextNoField>>),
                           FriendMessage(<<MusicShare, TextNoField>>)},
                    k \in {"time", "raw_message", "sub_type", "sender"}}

EventPayloads ==
    Templates \cup MissingKey \cup WrongValue \cup Rerouted \cup WithMessage
        \cup TestSenders \cup TwoDefects

\* The register calls an application makes after the import.
AppDecorators ==
    {Decorator("PostType", "notice", "NoticeEvent"),
     Decorator("PostType", "notice", "MetaEvent"),
     Decorator("PostType", "message", "MetaEvent"),
     Decorator("MessageType", "group", "FriendMessageEvent"),
     Decorator("MetaType", "lifecycle", "HeartbeatEvent"),
     Decorator("NoticeType", "poke", "FriendAddNoticeEvent"),
     Decorator("RequestType", "friend", "GroupRequestEvent"),
     Decorator("ElementType", "music", "TextElement")}

(***************************************************************************)
(* State machine.                                                          *)
(***************************************************************************)
NoCall == [op |-> "none"]

Init ==
    /\ registries = EmptyRegistries
    /\ loaded = 0
    /\ pc = "import"
    /\ last = NoCall
    /\ decode_ran = FALSE

\* One decorator call and what it leaves behind.
Decorate(d) ==
    LET r == register(d.registry, registries[d.registry], d.key, d.class)
    IN  /\ registries' = [registries EXCEPT ![d.registry] = r.registry]
        /\ last' = [op |-> "register", registry |-> d.registry, key |-> d.key,
                    class |-> d.class, before |-> resolve(registries[d.registry], d.key),
                    res |-> r.res]

\* The next decorator of the package import runs.
Import ==
    /\ pc = "import"
    /\ loaded < Len(ImportOrder)
    /\ Decorate(ImportOrder[loaded + 1])
    /\ loaded' = loaded + 1
    /\ pc' = IF loaded + 1 = Len(ImportOrder) THEN "idle" ELSE "import"
    /\ UNCHANGED decode_ran

\* The application calls a register decorator.
Register ==
    /\ pc = "idle"
    /\ \E d \in AppDecorators : Decorate(d)
    /\ pc' = "returned"
    /\ UNCHANGED <<loaded, decode_ran>>

\* The application calls BasicEvent.parse_event(data).
ParseEvent ==
    /\ pc = "idle"
    /\ \E data \in EventPayloads :
          last' = [op |-> "parse_event", class |-> "BasicEvent", data |-> data,
                   res |-> parse_event(registries, data)]
    /\ pc' = "returned"
    /\ UNCHANGED <<registries, loaded>>
    /\ decode_ran' = TRUE

\* The application calls parse_event of a root class directly.
ParseRootEvent ==
    /\ pc = "idle"
    /\ \E root \in DOMAIN Roots,
          data \in Templates \cup MissingKey \cup WrongValue \cup Rerouted :
          last' = [op |-> "parse_event", class |-> root, data |-> data,
                   res |-> RootParseEvent(Roots[root], registries, data)]
    /\ pc' = "returned"
    /\ UNCHANGED <<registries, loaded>>
    /\ decode_ran' = TRUE

\* Variant: the lookup takes the decoder out of the table (pop instead of get).
ParseElement_Pop ==
    /\ pc = "idle"
    /\ \E data \in ElementPayloads :
          /\ last' = [op |-> "parse_element", data |-> data,
                      res |-> parse_element(registries["ElementType"], data)]
          /\ registries' =
                IF "type" \in DOMAIN data /\ data["type"] \in ElementType
                THEN [registries EXCEPT !["ElementType"][data["type"]] = None]
                ELSE registries
    /\ pc' = "returned"
    /\ decode_ran' = TRUE
    /\ UNCHANGED loaded

\* The application calls Element.parse_element(data).
ParseElement ==
    /\ pc = "idle"
    /\ \E data \in ElementPayloads :
          last' = [op |-> "parse_element", data |-> data,
                   res |-> parse_element(registries["ElementType"], data)]
    /\ pc' = "returned"
    /\ UNCHANGED <<registries, loaded>>
    /\ decode_ran' = TRUE

\* The application calls Element.parse_element(data) of the first revision.
LegacyParseElement ==
    /\ pc = "idle"
    /\ \E data \in ElementPayloads :
          last' = [op |-> "legacy_parse_element", data |-> data,
                   res |-> Legacy_parse_element(data)]
    /\ pc' = "returned"
    /\ UNCHANGED <<registries, loaded, decode_ran>>

\* The application serialises the element it was handed with to_json and
\* hands the dict to Element.parse_element again.
ToJson ==
    /\ pc = "returned"
    /\ last.op = "parse_element"
    /\ last.res.ok
    /\ last' = [op |-> "to_json", data |-> last.data, element |-> last.res.val,
                res |-> Ok(Element_to_json(last.res.val)),
                again |-> parse_element(registries["ElementType"],
                                        Element_to_json(last.res.val))]
    /\ UNCHANGED <<registries, loaded, pc>>
    /\ decode_ran' = TRUE

\* The application calls NoticeEvent.from_json(data) or
\* RequestEvent.from_json(data) of the classes without a registry.
StaticFromJson ==
    /\ pc = "idle"
    /\ \E class \in DOMAIN StaticEvents, data \in Templates :
          last' = [op |-> "from_json", class |-> class, data |-> data,
                   res |-> Construct(StaticEvents[class], data,
                                     registries["ElementType"], NoArgs)]
    /\ pc' = "returned"
    /\ UNCHANGED <<registries, loaded, decode_ran>>

\* The application calls to_json on the event it was handed.
EventToJson ==
    /\ pc = "returned"
    /\ last.op \in {"parse_event", "from_json"}
    /\ last.res.ok
    /\ last' = [op |-> "event_to_json", data |-> last.data, event |-> last.res.val,
                res |-> Event_to_json(last.res.val)]
    /\ UNCHANGED <<registries, loaded, pc, decode_ran>>

\* The application calls to_json on the sender of the group message it was
\* handed.
SenderToJson ==
    /\ pc = "returned"
    /\ last.op = "parse_event"
    /\ last.res.ok
    /\ last.res.val.cls = "GroupMessageEvent"
    /\ last' = [op |-> "sender_to_json", data |-> last.data,
                sender |-> last.res.val.fields["sender"],
                res |-> GroupSender_to_json(last.res.val.fields["sender"])]
    /\ UNCHANGED <<registries, loaded, pc, decode_ran>>

\* The application builds an element for sending: RPSElement() or
\* DiceElement(), whose data class has result=None by default.
NewElement ==
    /\ pc = "idle"
    /\ \E class \in {RPSElement, DiceElement} :
          last' = [op |-> "new_element", class |-> class.name,
                   res |-> Ok(Instance(class, [result |-> None]))]
    /\ pc' = "returned"
    /\ UNCHANGED <<registries, loaded, decode_ran>>

\* The application reads .text of the element it was handed or has built.
ElementText ==
    /\ pc = "returned"
    /\ last.op \in {"parse_element", "new_element"}
    /\ last.res.ok
    /\ last' = [op |-> "element_text", from |-> last.op, element |-> last.res.val,
                res |-> Element_text(last.res.val)]
    /\ UNCHANGED <<registries, loaded, pc, decode_ran>>

\* The application reads .text of the message event it was handed.
Text ==
    /\ pc = "returned"
    /\ last.op = "parse_event"
    /\ last.res.ok
    /\ last.res.val.cls \in {"GroupMessageEvent", "FriendMessageEvent"}
    /\ last' = [op |-> "text", data |-> last.data, event |-> last.res.val,
                res |-> Ok(MessageEvent_text(last.res.val))]
    /\ UNCHANGED <<registries, loaded, pc, decode_ran>>

\* The caller takes the value or the error of the call.
Return ==
    /\ pc = "returned"
    /\ pc' = "idle"
    /\ last' = NoCall
    /\ UNCHANGED <<registries, loaded, decode_ran>>

Next ==
    \/ Import \/ Register \/ ParseEvent \/ ParseRootEvent \/ ParseElement
    \/ LegacyParseElement \/ StaticFromJson \/ ToJson \/ EventToJson
    \/ SenderToJson \/ NewElement \/ ElementText \/ Text \/ Return

Spec == Init /\ [][Next]_vars

(***************************************************************************)
(* Calls made while the package is still loading.  A thread that holds the *)
(* classes already defined can call a decoder while another thread is     *)
(* still importing the rest, so a call can meet registries that are only  *)
(* partly filled.                                                          *)
(***************************************************************************)
\* The class statement of the root has run: the import has come to the first
\* decorator that names the root or fills its registry.
RootDefined(root) ==
    \E i \in 1..Len(ImportOrder) :
        /\ ImportOrder[i].class = root \/ ImportOrder[i].registry = Roots[root].enum
        /\ loaded >= i - 1

\* The import is running or has just ended, and the caller is not inside a
\* call: a call's result depends on the registries alone, so one call per
\* step of the import shows all there is to see.
Loading == pc \in {"import", "idle"} /\ last.op \in {"none", "register"}

\* BasicEvent.parse_event(data), called while loading or right after.
CallEvent ==
    /\ Loading
    /\ \E data \in EventPayloads :
          last' = [op |-> "parse_event", class |-> "BasicEvent", data |-> data,
                   res |-> parse_event(registries, data)]
    /\ UNCHANGED <<registries, loaded, pc>>
    /\ decode_ran' = TRUE

\* parse_event of a root class, called while loading or right after.
CallRootEvent ==
    /\ Loading
    /\ \E root \in DOMAIN Roots, data \in Templates :
          /\ RootDefined(root)
          /\ last' = [op |-> "parse_event", class |-> root, data |-> data,
                      res |-> RootParseEvent(Roots[root], registries, data)]
    /\ UNCHANGED <<registries, loaded, pc>>
    /\ decode_ran' = TRUE

\* Element.parse_element(data), called while loading or right after.
CallElement ==
    /\ Loading
    /\ \E data \in ElementPayloads :
          last' = [op |-> "parse_element", data |-> data,
                   res |-> parse_element(registries["ElementType"], data)]
    /\ UNCHANGED <<registries, loaded, pc>>
    /\ decode_ran' = TRUE

NextLoading == Import \/ CallEvent \/ CallRootEvent \/ CallElement

SpecLoading == Init /\ [][NextLoading]_vars

(***************************************************************************)
(* Properties.                                                             *)
(***************************************************************************)
\* The call the application made last raised an error of this type.
Delivers(type) == ~last.res.ok /\ last.res.exc[1].type = type

\* The last call was BasicEvent.parse_event.
TopLevelCall == last.op = "parse_event" /\ last.class = "BasicEvent"

\* The last call was parse_event of a root class.
RootCall == last.op = "parse_event" /\ last.class # "BasicEvent"

UnknownPostType == "post_type" \in DOMAIN last.data /\ last.data["post_type"] \notin PostType

\* C1 as stated: for every event payload whose post_type is present but is
\* not a known post-type value, BasicEvent.parse_event fails with
\* UnregisteredEventError and with no other kind of error.
C1_UnknownPostTypeIsUnregistered ==
    (TopLevelCall /\ UnknownPostType) => Delivers("UnregisteredEventError")

\* C1 amended: a post_type that is present but is no PostType value makes
\* BasicEvent.parse_event fail with ParameterError raised from the ValueError of
\* the enum conversion; UnregisteredEventError is delivered by
\* BasicEvent.parse_event only for a post_type that is a PostType value without
\* a root decoder in the top-level registry.
C1_UnknownPostTypeIsParameterError ==
    TopLevelCall =>
        /\ UnknownPostType =>
              /\ Delivers("ParameterError")
              /\ last.res.exc[1].site = "BasicEvent.parse_event"
              /\ last.res.exc[2].type = "ValueError"
        /\ (Delivers("UnregisteredEventError")
                /\ last.res.exc[1].site = "BasicEvent.parse_event") <=>
              /\ "post_type" \in DOMAIN last.data
              /\ last.data["post_type"] \in PostType
              /\ resolve(registries["PostType"], last.data["post_type"]) = None

C1_Witness ==
    /\ TopLevelCall
    /\ "post_type" \in DOMAIN last.data
    /\ last.data["post_type"] = "bogus"
    /\ Delivers("ParameterError")

\* Well-formed payloads of the four branches with time taken out.
WithoutTime == {Remove(t, "time") : t \in Templates}

\* C2: for every event payload that is well-formed except that time is absent,
\* the error BasicEvent.parse_event delivers is a ParameterError, whichever of
\* the branches message, meta_event, notice and request the payload routes to.
C2_MissingTimeIsParameterError ==
    (TopLevelCall /\ last.data \in WithoutTime) => Delivers("ParameterError")

\* C3: registering a second decoder for an ElementType that already has one
\* in the element registry fails with ParserRegisteredError.
C3_SecondElementDecoderRejected ==
    (last.op = "register" /\ last.registry = "ElementType" /\ last.before # None)
        => Delivers("ParserRegisteredError")

\* A register call on an event registry for a discriminator that is present.
SecondRegistration ==
    last.op = "register" /\ last.registry \in EventRegistries /\ last.before # None

\* C4: in each event registry (PostType, MessageType, MetaType, NoticeType,
\* RequestType) a register call for a discriminator that is already present
\* raises ParserRegisteredError and leaves the table as it was, so an entry,
\* once made, stays: resolve returns the first decoder registered for it.
C4_FirstRegistrationWins ==
    /\ [](SecondRegistration =>
            /\ Delivers("ParserRegisteredError")
            /\ resolve(registries[last.registry], last.key) = last.before)
    /\ [][\A r \in EventRegistries :
            /\ (last'.op = "register" /\ last'.registry = r /\ ~last'.res.ok)
                  => registries'[r] = registries[r]
            /\ \A k \in RegistryEnum[r] :
                  resolve(registries[r], k) # None
                      => resolve(registries'[r], k) = resolve(registries[r], k)]_vars

C4_Witness ==
    /\ SecondRegistration
    /\ pc = "returned"
    /\ last.class # last.before
    /\ Delivers("ParserRegisteredError")

\* C5: once all model modules are loaded, the top-level registry holds a root
\* decoder for each of meta_event, message, notice and request, and
\* BasicEvent.parse_event on a well-formed payload of any of these post types
\* never fails with UnregisteredEventError.
C5_FourRootsRegistered ==
    pc # "import" =>
        /\ \A p \in {"meta_event", "message", "notice", "request"} :
              resolve(registries["PostType"], p) # None
        /\ (TopLevelCall /\ last.data \in Templates)
              => ~Delivers("UnregisteredEventError")

\* The one variant each second discriminator stands for.
Variant ==
    [MessageEvent |-> [group |-> "GroupMessageEvent", private |-> "FriendMessageEvent"],
     MetaEvent |-> [heartbeat |-> "HeartbeatEvent", lifecycle |-> "LifeCycleEvent"],
     RequestEvent |-> [friend |-> "FriendRequestEvent", group |-> "GroupRequestEvent"],
     NoticeEvent |->
        [group_upload |-> "GroupUploadNoticeEvent", group_admin |-> "GroupAdminNoticeEvent",
         group_decrease |-> "GroupDecreaseNoticeEvent",
         group_increase |-> "GroupIncreaseNoticeEvent", group_ban |-> "GroupBanNoticeEvent",
         group_recall |-> "GroupRecallNoticeEvent", group_card |-> "GroupCardNoticeEvent",
         group_msg_emoji_like |-> "GroupMsgEmojiLikeNoticeEvent",
         friend_add |-> "FriendAddNoticeEvent", friend_recall |-> "FriendRecallNoticeEvent",
         lucky_king |-> "LuckyKingNoticeEvent", essence |-> "EssenceNoticeEvent",
         honor |-> "HonorNoticeEvent", poke |-> "PokeNoticeEvent"]]

\* The second discriminator field of the root that was called.
SecondKey == Roots[last.class].key

\* C6: for every well-formed event payload the concrete class a root's
\* parse_event returns is determined solely by the second discriminator (group
\* gives GroupMessageEvent, private FriendMessageEvent, heartbeat
\* HeartbeatEvent, lifecycle LifeCycleEvent, likewise each notice_type and
\* request_type), and the decoder is handed the entire original payload.
C6_SecondDiscriminatorDecides ==
    RootCall =>
        /\ last.res.ok => last.res.val.cls = Variant[last.class][last.data[SecondKey]]
        /\ (last.data \in Templates /\ SecondKey \in DOMAIN last.data) =>
              /\ last.res.ok
              /\ last.res = from_json(Classes[Variant[last.class][last.data[SecondKey]]],
                                      last.data, registries["ElementType"])
              /\ \A k \in {"time", "self_id"} : last.res.val.fields[k] = last.data[k]

C6_Witness ==
    /\ RootCall
    /\ last.class = "MessageEvent"
    /\ last.data = GroupMessage(<<ReplyTo, TextHi>>)
    /\ last.res.ok
    /\ last.res.val.cls = "GroupMessageEvent"

\* parts[1], ..., parts[n] with one space between neighbours, built from the left.
RECURSIVE Spaced(_, _)
Spaced(parts, n) ==
    IF n = 0 THEN ""
    ELSE IF n = 1 THEN parts[1]
    ELSE Spaced(parts, n - 1) \o " " \o parts[n]

\* C7: for every decoded message event, text equals the text projections of
\* its elements, in the order of the wire message array, joined with exactly
\* one space between consecutive elements; one element gives its own text and
\* an empty sequence gives the empty string.
C7_TextIsSpaceJoined ==
    last.op = "text" =>
        LET wire == last.data["message"]
            decoded == [i \in 1..Len(wire) |->
                           parse_element(registries["ElementType"], wire[i]).val]
        IN  /\ last.event.fields["message"] = decoded
            /\ last.res.val = Spaced([i \in 1..Len(wire) |-> text(decoded[i])], Len(wire))
            /\ Len(wire) = 0 => last.res.val = ""
            /\ Len(wire) = 1 => last.res.val = text(decoded[1])

C7_Witness ==
    /\ last.op = "text"
    /\ last.data["message"] = <<ReplyTo, TextHi, ForwardRef>>
    /\ last.res.val = "[reply](576826342) hi [forward]"

\* A wire element of type music.
IsMusic(data) ==
    "type" \in DOMAIN data /\ data["type"] = "music" /\ "data" \in DOMAIN data

\* A wire element of type forward that carries a content array.
HasContent(data) ==
    /\ "type" \in DOMAIN data /\ data["type"] = "forward" /\ "data" \in DOMAIN data
    /\ "content" \in DOMAIN data["data"]

\* Index of the first entry of list whose decoding fails, 0 when all decode.
FirstFailure(element_registry, list) ==
    LET bad == {i \in 1..Len(list) : ~parse_element(element_registry, list[i]).ok}
    IN  IF bad = {} THEN 0 ELSE CHOOSE i \in bad : \A j \in bad : i <= j

\* Decoding list comes to a music element, in the array itself or in the
\* content of a forward element of it, after entries that all decode.
RECURSIVE ReachesMusic(_, _)
ReachesMusic(element_registry, list) ==
    \E i \in 1..Len(list) :
        /\ \A j \in 1..(i - 1) : parse_element(element_registry, list[j]).ok
        /\ \/ IsMusic(list[i])
           \/ /\ HasContent(list[i])
              /\ ReachesMusic(element_registry, list[i]["data"]["content"])

\* C8: decoding any wire element of type music through parse_element fails
\* with SendElementOnlyError and the error leaves the pipeline unwrapped, also
\* when the music element is an entry of a message event's message array or of
\* a forward element's content.
C8_MusicIsSendOnly ==
    /\ (last.op = "parse_element" /\ ReachesMusic(registries["ElementType"], <<last.data>>))
          => Delivers("SendElementOnlyError") /\ Len(last.res.exc) = 1
    /\ (TopLevelCall /\ last.data \in WithMessage
            /\ ReachesMusic(registries["ElementType"], last.data["message"]))
          => Delivers("SendElementOnlyError") /\ Len(last.res.exc) = 1

\* The last call was a dispatching parse_event / parse_element that failed.
FailedDecode == last.op \in {"parse_event", "parse_element"} /\ ~last.res.ok

\* The boundary that was called, the discriminator it read and the payload it
\* hands to the decoder it resolves.
Boundary ==
    IF last.op = "parse_element"
    THEN [site |-> "Element.parse_element", registry |-> "ElementType", key |-> "type",
          whole |-> FALSE]
    ELSE IF last.class = "BasicEvent"
    THEN [site |-> "BasicEvent.parse_event", registry |-> "PostType", key |-> "post_type",
          whole |-> TRUE]
    ELSE [site |-> last.class \o ".parse_event", registry |-> Roots[last.class].enum,
          key |-> SecondKey, whole |-> TRUE]

\* The call reached a registered decoder.
Dispatched ==
    /\ last.op \in {"parse_event", "parse_element"}
    /\ Boundary.key \in DOMAIN last.data
    /\ last.data[Boundary.key] \in RegistryEnum[Boundary.registry]
    /\ Boundary.whole \/ "data" \in DOMAIN last.data
    /\ resolve(registries[Boundary.registry], last.data[Boundary.key]) # None

\* What the decoder the call resolved returns or raises.
Decoded ==
    LET target_class == resolve(registries[Boundary.registry], last.data[Boundary.key])
    IN  IF last.op = "parse_element"
        THEN from_json(Classes[target_class], last.data["data"], registries["ElementType"])
        ELSE IF last.class = "BasicEvent"
        THEN RootParseEvent(Roots[target_class], registries, last.data)
        ELSE from_json(Classes[target_class], last.data, registries["ElementType"])

\* C9 as stated: every error raised while a registered decoder runs, other
\* than an unregistered-discriminator error or a send-only error, is delivered
\* by the dispatching parse_event / parse_element as a ParseError.
C9_DecoderErrorsAreParseErrors ==
    (Dispatched /\ ~last.res.ok /\ ~IsUnregisteredError(last.res.exc[1].type)
        /\ ~Delivers("SendElementOnlyError")) => Delivers("ParseError")

\* C9 amended: an error raised while a registered decoder runs is re-wrapped
\* as a ParseError naming the variant exactly when it derives from Exception
\* (KeyError, ValueError, AssertionError, TypeError); the library's own errors,
\* ParameterError for a missing or ill-typed required field included, derive
\* from BaseException and are delivered as the decoder raised them.
C9_OnlyExceptionsAreWrapped ==
    /\ FailedDecode =>
          /\ last.res.exc[1].type \notin BuiltinErrors
          /\ \A i \in 1..Len(last.res.exc) :
                last.res.exc[i].type = "ParseError" =>
                    /\ i < Len(last.res.exc)
                    /\ last.res.exc[i + 1].type \in BuiltinErrors
                    /\ \E r \in DOMAIN RegistryEnum : last.res.exc[i].arg \in RegistryEnum[r]
    /\ (Dispatched /\ ~Decoded.ok) =>
          IF Decoded.exc[1].type \in BuiltinErrors
          THEN last.res.exc =
                   <<[type |-> "ParseError", site |-> Boundary.site,
                      arg |-> last.data[Boundary.key]]>> \o Decoded.exc
          ELSE last.res = Decoded

C9_Witness ==
    /\ TopLevelCall
    /\ last.data = Remove(GroupMessage(<<ReplyTo, TextHi>>), "time")
    /\ Delivers("ParameterError")
    /\ last.res.exc[1].site = "GroupMessageEvent.from_json"

\* The errors in the chain of the delivered error that are ParseErrors.
ParseErrors == {i \in 1..Len(last.res.exc) : last.res.exc[i].type = "ParseError"}

\* C10: across nested dispatch boundaries (BasicEvent.parse_event, the root's
\* parse_event, Element.parse_element for a message element and for a forward
\* child) an error wrapped as ParseError at an inner boundary is not wrapped
\* again by an outer one: the caller receives the ParseError created at the
\* innermost boundary that was crossed.
C10_ParseErrorWrappedOnce ==
    /\ FailedDecode => ParseErrors \subseteq {1}
    /\ (TopLevelCall /\ last.data \in WithMessage) =>
          LET message == last.data["message"]
              i == FirstFailure(registries["ElementType"], message)
              inner == parse_element(registries["ElementType"], message[i])
          IN  (i # 0 /\ inner.exc[1].type = "ParseError") => last.res = inner
    /\ (last.op = "parse_element" /\ HasContent(last.data)) =>
          LET content == last.data["data"]["content"]
              i == FirstFailure(registries["ElementType"], content)
              inner == parse_element(registries["ElementType"], content[i])
          IN  (i # 0 /\ inner.exc[1].type = "ParseError") => last.res = inner

C10_Witness ==
    /\ TopLevelCall
    /\ last.data = GroupMessage(<<ForwardWith(<<ForwardWith(<<TextNoField>>)>>)>>)
    /\ last.res.exc[1] = [type |-> "ParseError", site |-> "Element.parse_element",
                          arg |-> "text"]
    /\ last.res.exc[2].type = "ValueError"

\* The discriminator the boundary read is a value of its enum for which the
\* registry holds no decoder.
NoDecoder(registry, data, key) ==
    /\ key \in DOMAIN data
    /\ data[key] \in RegistryEnum[registry]
    /\ resolve(registries[registry], data[key]) = None

\* The delivered error is this one error, with nothing wrapped around it and
\* nothing behind it.
DeliversBare(type, site) ==
    /\ ~last.res.ok
    /\ Len(last.res.exc) = 1
    /\ last.res.exc[1].type = type
    /\ last.res.exc[1].site = site

\* C11: when a discriminator at any level (post_type, the second-level event
\* discriminator, an element type, also of an element nested in a message
\* event or in a forward) is a valid enum value with no registered decoder,
\* the outermost caller receives an UnregisteredEventError /
\* UnregisteredElementError, and that error is never wrapped in a ParseError.
\* Every element class is registered before the first class that embeds
\* elements, so for a nested element the first conjunct is the one that speaks.
C11_UnregisteredNeverWrapped ==
    /\ FailedDecode =>
          \A i \in 1..Len(last.res.exc) :
              IsUnregisteredError(last.res.exc[i].type) => i = 1 /\ Len(last.res.exc) = 1
    /\ (TopLevelCall /\ NoDecoder("PostType", last.data, "post_type"))
          => DeliversBare("UnregisteredEventError", "BasicEvent.parse_event")
    /\ (TopLevelCall /\ "post_type" \in DOMAIN last.data
            /\ last.data["post_type"] \in PostType
            /\ resolve(registries["PostType"], last.data["post_type"]) \in DOMAIN Roots
            /\ NoDecoder(Roots[resolve(registries["PostType"], last.data["post_type"])].enum,
                         last.data,
                         Roots[resolve(registries["PostType"], last.data["post_type"])].key))
          => DeliversBare("UnregisteredEventError",
                 resolve(registries["PostType"], last.data["post_type"]) \o ".parse_event")
    /\ (RootCall /\ NoDecoder(Roots[last.class].enum, last.data, SecondKey))
          => DeliversBare("UnregisteredEventError", last.class \o ".parse_event")
    /\ (last.op = "parse_element" /\ "data" \in DOMAIN last.data
            /\ NoDecoder("ElementType", last.data, "type"))
          => DeliversBare("UnregisteredElementError", "Element.parse_element")

\* A message payload meets the root of its post type while the variant of its
\* message_type is not registered yet.
C11_Witness ==
    /\ TopLevelCall
    /\ last.data = GroupMessage(<<ReplyTo, TextHi>>)
    /\ resolve(registries["PostType"], "message") = "MessageEvent"
    /\ DeliversBare("UnregisteredEventError", "MessageEvent.parse_event")

\* The wire element has no type, or a type that is no ElementType value.
NoElementType == "type" \notin DOMAIN last.data \/ last.data["type"] \notin ElementType

\* C12: parse_element fails with ParameterError whenever the wire element has
\* no type key or a type that is not one of the 15 ElementType values, in the
\* registry-based implementation and in the match-based one; no element is
\* produced and no decoder runs.
C12_BadTypeIsParameterError ==
    (last.op \in {"parse_element", "legacy_parse_element"} /\ NoElementType) =>
        /\ Delivers("ParameterError")
        /\ last.res.exc[1].site = "Element.parse_element"
        /\ \A i \in 1..Len(last.res.exc) : last.res.exc[i].site = "Element.parse_element"

\* The wire keys the decoder of a class requires.
RequiredKeys(class) == {class.args[i].key : i \in {j \in 1..Len(class.args) : class.args[j].how = "req"}}

\* The fields the decoder of a class fills from required keys.
RequiredFields(class) == {class.args[i].arg : i \in {j \in 1..Len(class.args) : class.args[j].how = "req"}}

\* C13: decoding a well-formed element, serialising it with to_json and decoding
\* again is a round trip: the dict has the same type, every required field of
\* the payload under the same wire key with the same value, and the second
\* decoding succeeds and equals the first on the required fields.
C13_ElementRoundTrip ==
    last.op = "to_json" =>
        LET class == ElementClasses[last.element.cls]
        IN  /\ last.res.val.type = last.data["type"]
            /\ \A k \in RequiredKeys(class) :
                  /\ k \in DOMAIN last.res.val.data
                  /\ last.res.val.data[k] = last.data["data"][k]
            /\ last.again.ok
            /\ \A f \in RequiredFields(class) :
                  last.again.val.element_data[f] = last.element.element_data[f]

\* C14: events are receive-only: to_json of every event value of every variant
\* (message, meta, notice, request) raises EventReceivedOnlyError or
\* NonSerializableError and returns no JSON object.
C14_EventsAreReceiveOnly ==
    last.op = "event_to_json" =>
        /\ ~last.res.ok
        /\ last.res.exc[1].type \in {"EventReceivedOnlyError", "NonSerializableError"}

\* C15: sender values are never serialised back: to_json on any GroupSender
\* fails with NonSerializableError.
C15_GroupSenderNotSerializable ==
    last.op = "sender_to_json" =>
        /\ ~last.res.ok
        /\ last.res.exc[1].type = "NonSerializableError"

\* The decoded element has the type of the wire element, and a decoded forward
\* has one child for each entry of content, in the order of the array, each
\* child mirroring its entry in the same way.
RECURSIVE Mirrors(_, _)
Mirrors(element, data) ==
    /\ element.element_type = data["type"]
    /\ (data["type"] = "forward" /\ "content" \in DOMAIN data["data"]) =>
          /\ element.element_data["has_content"]
          /\ Len(element.element_data["content"]) = Len(data["data"]["content"])
          /\ \A i \in 1..Len(data["data"]["content"]) :
                Mirrors(element.element_data["content"][i], data["data"]["content"][i])
    /\ (data["type"] = "forward" /\ "content" \notin DOMAIN data["data"]) =>
          ~element.element_data["has_content"]

\* A call of Element.parse_element on a forward element, all decoders
\* registered.
ForwardCall ==
    /\ last.op = "parse_element"
    /\ "type" \in DOMAIN last.data /\ "data" \in DOMAIN last.data
    /\ last.data["type"] = "forward"

\* C16: a forward element with a content array decodes every entry through
\* parse_element and holds the children in the order of the array, with the
\* same length, at every nesting level; a forward element without content
\* decodes with an absent child list.
C16_ForwardContentInOrder ==
    ForwardCall =>
        LET d == last.data["data"]
            reg == registries["ElementType"]
        IN  /\ last.res.ok => Mirrors(last.res.val, last.data)
            /\ (last.res.ok /\ "content" \in DOMAIN d) =>
                  \A i \in 1..Len(d["content"]) :
                     /\ parse_element(reg, d["content"][i]).ok
                     /\ last.res.val.element_data["content"][i]
                           = parse_element(reg, d["content"][i]).val
            /\ ("content" \in DOMAIN d /\ "id" \in DOMAIN d
                  /\ \A i \in 1..Len(d["content"]) : parse_element(reg, d["content"][i]).ok)
                  => last.res.ok
            /\ ("content" \notin DOMAIN d /\ "id" \in DOMAIN d) =>
                  /\ last.res.ok
                  /\ ~last.res.val.element_data["has_content"]
                  /\ last.res.val.element_data["content"] = <<>>

\* A forward element with two different children has been decoded.
C16_Witness ==
    /\ ForwardCall
    /\ last.res.ok
    /\ "content" \in DOMAIN last.data["data"]
    /\ Len(last.data["data"]["content"]) = 2
    /\ last.data["data"]["content"][1] # last.data["data"]["content"][2]
    /\ last.res.val.element_data["content"][1].element_type = "text"
    /\ last.res.val.element_data["content"][2].element_type = "reply"

\* to_json has been called on a decoded ImageElement.
ImageToJson == last.op = "to_json" /\ last.element.cls = "ImageElement"

\* C17: the data an ImageElement serialises to always has file, has url,
\* summary and sub_type exactly when the field is not None, each with the value
\* of the field, and never has file_size, key, emoji_id or emoji_package_id.
C17_ImageToJsonKeys ==
    ImageToJson =>
        LET d == last.res.val.data
            f == last.element.element_data
        IN  /\ "file" \in DOMAIN d /\ d["file"] = f["file"]
            /\ \A k \in {"url", "summary", "sub_type"} :
                  /\ k \in DOMAIN d <=> f[k] # None
                  /\ k \in DOMAIN d => d[k] = f[k]
            /\ DOMAIN d \cap {"file_size", "key", "emoji_id", "emoji_package_id"} = {}
            /\ last.res.val.type = "image"

\* An ImageElement holding url and the receive-only fields, and no summary,
\* has been serialised.
C17_Witness ==
    /\ ImageToJson
    /\ last.element.element_data["url"] # None
    /\ last.element.element_data["summary"] = None
    /\ last.element.element_data["file_size"] # None
    /\ last.element.element_data["key"] # None
    /\ "url" \in DOMAIN last.res.val.data

\* .text has been read from an element of the class.
TextOf(cls) == last.op = "element_text" /\ last.element.cls = cls

\* C18: the text of a FaceElement is the faceText of its raw payload when raw is
\* an object with a non-empty label, and the template built from its id
\* otherwise; the text of an ImageElement is its summary when that is present
\* and not empty, and the fixed placeholder otherwise.
C18_TextFallback ==
    /\ TextOf("FaceElement") =>
          LET raw == last.element.element_data["raw"]
          IN  /\ last.res.ok
              /\ (raw.dict /\ raw.faceText \notin {None, ""}) => last.res.val = raw.faceText
              /\ ~(raw.dict /\ raw.faceText \notin {None, ""}) =>
                    last.res.val = "[face](" \o last.element.element_data["id"] \o ")"
    /\ TextOf("ImageElement") =>
          LET summary == last.element.element_data["summary"]
          IN  /\ last.res.ok
              /\ summary \notin {None, ""} => last.res.val = summary
              /\ summary \in {None, ""} => last.res.val = "[image]"

\* The text of an image whose summary is the empty string has been read.
C18_Witness ==
    /\ TextOf("ImageElement")
    /\ last.element.element_data["summary"] = ""
    /\ last.res = Ok("[image]")

\* C19: text is total: for every element decoded by parse_element or built with
\* a construction helper, RPSElement() and DiceElement() with no result
\* included, text returns a string and does not raise.
C19_TextIsTotal ==
    last.op = "element_text" => last.res.ok /\ IsStr(last.res.val)

\* The table the claim pins: wire result to member name.
PinnedRPS == ("1" :> "CLOTH") @@ ("2" :> "SHEARS") @@ ("3" :> "STONE")

\* A call of parse_element, of either implementation, has decoded an rps
\* element.
DecodedRPS(op) ==
    /\ last.op = op
    /\ last.res.ok
    /\ last.res.val.cls = "RPSElement"

\* C20: result "1" decodes to CLOTH, "2" to SHEARS and "3" to STONE, the text of
\* the element carries the name of that member, and both implementations of
\* parse_element decode by this table.
C20_RPSTablePinned ==
    /\ DecodedRPS("parse_element") =>
          /\ last.res.val.element_data["result"] = last.data["data"]["result"]
          /\ RPSResultName(last.res.val.element_data["result"])
                = PinnedRPS[last.data["data"]["result"]]
          /\ text(last.res.val)
                = "[rps](" \o PinnedRPS[last.data["data"]["result"]] \o ")"
    /\ DecodedRPS("legacy_parse_element") =>
          LegacyRPSResultName(last.res.val.element_data["result"])
             = PinnedRPS[last.data["data"]["result"]]

\* The root whose nested registry the last parse_event call went through: the
\* root that was called, or the one BasicEvent.parse_event resolved.
ReachedRoot ==
    IF RootCall THEN last.class
    ELSE IF TopLevelCall /\ "post_type" \in DOMAIN last.data
            /\ last.data["post_type"] \in PostType
    THEN resolve(registries["PostType"], last.data["post_type"])
    ELSE None

\* The keyword arguments a class reads from the wire key sub_type through an
\* enum.
SubTypeArgs(class) ==
    {i \in 1..Len(class.args) :
        class.args[i].key = "sub_type" /\ class.args[i].conv = "enum"}

\* The last call reached a notice or request variant that carries sub_type,
\* with a sub_type on the wire.
SubTypedCall ==
    /\ ReachedRoot \in {"NoticeEvent", "RequestEvent"}
    /\ Roots[ReachedRoot].key \in DOMAIN last.data
    /\ last.data[Roots[ReachedRoot].key] \in DOMAIN Variant[ReachedRoot]
    /\ SubTypeArgs(Classes[Variant[ReachedRoot][last.data[Roots[ReachedRoot].key]]]) # {}
    /\ "sub_type" \in DOMAIN last.data

\* C21: a third-level sub_type never selects a class: for each notice or request
\* variant that carries sub_type, every valid sub_type value decodes through
\* the same decoder to the same concrete class with the sub_type field equal
\* to the wire value, and an invalid sub_type value fails with ParameterError.
C21_SubTypeSelectsNoClass ==
    SubTypedCall =>
        LET name == Variant[ReachedRoot][last.data[Roots[ReachedRoot].key]]
            class == Classes[name]
            a == class.args[CHOOSE i \in SubTypeArgs(class) : TRUE]
            With(v) == RootParseEvent(Roots[ReachedRoot], registries,
                                      [last.data EXCEPT !["sub_type"] = v])
        IN  /\ last.res.ok =>
                  /\ last.res.val.cls = name
                  /\ last.res.val.fields[a.arg] = last.data["sub_type"]
            /\ last.data["sub_type"] \in a.values =>
                  \A v \in a.values :
                     /\ With(v).ok <=> last.res.ok
                     /\ With(v).ok =>
                           /\ With(v).val.cls = name
                           /\ With(v).val.fields[a.arg] = v
                           /\ With(v).val.fields
                                 = [last.res.val.fields EXCEPT ![a.arg] = v]
            /\ last.data["sub_type"] \notin a.values => Delivers("ParameterError")

\* NoticeEvent.parse_event has decoded a group_admin notice whose sub_type is
\* unset.
C21_Witness ==
    /\ RootCall
    /\ last.class = "NoticeEvent"
    /\ SubTypedCall
    /\ last.data["notice_type"] = "group_admin"
    /\ last.data["sub_type"] = "unset"
    /\ last.res.ok
    /\ last.res.val.cls = "GroupAdminNoticeEvent"
    /\ last.res.val.fields["sub_type"] = "unset"

\* An invalid sub_type has been refused.
C21_Refused ==
    SubTypedCall /\ last.data["sub_type"] = "#7" /\ Delivers("ParameterError")

\* C22: in every execution all register calls on every registry come strictly
\* before the first resolve or decode call: once a decode has run, no step
\* adds or changes an entry of a registry.
C22_RegistrationBeforeDecode ==
    [][decode_ran => registries' = registries]_vars

\* C23: a GroupSender decodes from any sender object that holds user_id,
\* nickname and role, and a FriendSender from any that holds user_id and
\* nickname; no other sender field is required, so a message event whose
\* sender carries only these fields (and the optional card) decodes.
C23_SenderRequiredFields ==
    (TopLevelCall /\ last.data \in TestSenders) =>
        /\ last.res.ok
        /\ last.res.val.fields["sender"].fields["user_id"] = last.data["sender"]["user_id"]
        /\ last.res.val.fields["sender"].fields["nickname"]
              = last.data["sender"]["nickname"]

\* The root class a concrete event class derives from.
RootOf(cls) ==
    CHOOSE r \in DOMAIN Roots : \E k \in DOMAIN Variant[r] : Variant[r][k] = cls

\* C24: every event value produced by a decode entry point
\* (BasicEvent.parse_event, or parse_event of a root class called directly and
\* with it the from_json it dispatches to) has a post_type that is a PostType
\* key under which the root class of the value is registered in the top-level
\* registry.
C24_PostTypeMatchesRegisteredRoot ==
    (last.op = "parse_event" /\ last.res.ok) =>
        /\ last.res.val.fields["post_type"] \in PostType
        /\ resolve(registries["PostType"], last.res.val.fields["post_type"])
              = RootOf(last.res.val.cls)

\* The payload is a well-formed one whose time or self_id has been replaced by
\* a value of another JSON type.
WrongType ==
    \E t \in Templates, k \in {"time", "self_id"} : last.data = Retype(t, k)

\* C25: decoding an event in which a required field is present but has the
\* wrong type (a non-integer time or self_id) fails with ParameterError, the
\* kind delivered for an absent required field.
C25_WrongTypeIsParameterError ==
    (last.op = "parse_event" /\ WrongType) => Delivers("ParameterError")

\* The operations that decode, encode or project, as last.op records them.
CallOps ==
    {"parse_event", "parse_element", "legacy_parse_element", "from_json", "new_element",
     "to_json", "event_to_json", "sender_to_json", "element_text", "text"}

\* C26: no decode, encode or text operation adds, removes or replaces an entry
\* of a registry: every table is the same after the call as before it, whether
\* the call succeeds or fails, so only register calls ever change a table.
C26_CallsLeaveRegistries ==
    [][/\ last'.op \in CallOps => registries' = registries
       /\ registries' # registries => last'.op = "register"]_vars

\* A decode call has failed inside a registered decoder.
C26_Witness ==
    /\ last.op = "parse_element"
    /\ Delivers("ParseError")
    /\ resolve(registries["ElementType"], last.data["type"]) # None

\* The greatest of a set of naturals, 0 for the empty set.
Max(S) == IF S = {} THEN 0 ELSE CHOOSE m \in S : \A n \in S : n <= m

\* Nesting depth of a wire element: 0 for an element that is no forward with
\* content, one more than its deepest entry for a forward with content.
RECURSIVE WireDepth(_)
WireDepth(data) ==
    IF data["type"] = "forward" /\ "content" \in DOMAIN data["data"]
    THEN 1 + Max({WireDepth(data["data"]["content"][i]) :
                     i \in 1..Len(data["data"]["content"])})
    ELSE 0

\* Nesting depth of a decoded element, by its child lists.
RECURSIVE ElementDepth(_)
ElementDepth(element) ==
    IF element.element_type = "forward" /\ element.element_data["has_content"]
    THEN 1 + Max({ElementDepth(element.element_data["content"][i]) :
                     i \in 1..Len(element.element_data["content"])})
    ELSE 0

\* Every element of a wire tree: the element and the elements under it.
RECURSIVE WireNodes(_)
WireNodes(data) ==
    {data} \cup
    (IF data["type"] = "forward" /\ "content" \in DOMAIN data["data"]
     THEN UNION {WireNodes(data["data"]["content"][i]) :
                    i \in 1..Len(data["data"]["content"])}
     ELSE {})

\* A wire element on its own, without the content under it.
Flat(data) ==
    [type |-> data["type"],
     data |-> [k \in DOMAIN data["data"] \ {"content"} |-> data["data"][k]]]

SentCall ==
    /\ TopLevelCall
    /\ "post_type" \in DOMAIN last.data
    /\ last.data["post_type"] = "message_sent"

\* What the same registries give for the same payload under post_type message.
AsMessage == parse_event(registries, Reroute(last.data, "message"))

\* C28: a payload with post_type message_sent goes to the root registered for
\* message and ends as the same payload under message does: the same error,
\* or an event of the same concrete class (the one of its message_type) with
\* the same fields, except that post_type is MESSAGE_SENT, as read from the
\* wire, where the other has MESSAGE.
C28_MessageSentIsMessage ==
    SentCall =>
        /\ resolve(registries["PostType"], "message_sent")
              = resolve(registries["PostType"], "message")
        /\ last.res.ok = AsMessage.ok
        /\ ~last.res.ok =>
              /\ Len(last.res.exc) = Len(AsMessage.exc)
              /\ \A i \in 1..Len(last.res.exc) :
                    /\ last.res.exc[i].type = AsMessage.exc[i].type
                    /\ last.res.exc[i].site = AsMessage.exc[i].site
        /\ last.res.ok =>
              /\ last.res.val.cls = AsMessage.val.cls
              /\ last.res.val.cls
                    = resolve(registries["MessageType"], last.data["message_type"])
              /\ last.res.val.fields["post_type"] = "message_sent"
              /\ AsMessage.val.fields["post_type"] = "message"
              /\ \A f \in DOMAIN last.res.val.fields \ {"post_type"} :
                    last.res.val.fields[f] = AsMessage.val.fields[f]

\* A group message sent by the bot itself has been decoded.
C28_Witness ==
    /\ SentCall
    /\ last.res.ok
    /\ last.res.val.cls = "GroupMessageEvent"
    /\ last.res.val.fields["post_type"] = "message_sent"

\* The keys GroupMessageEvent.from_json and FriendMessageEvent.from_json read
\* before they decode message, in the order of the keyword arguments.
ReadBeforeMessage ==
    {"time", "post_type", "self_id", "message_type", "message_id", "user_id", "font",
     "raw_message"}

\* A call of BasicEvent.parse_event on a message payload whose message array
\* has an entry that does not decode.
FailingEntryCall ==
    /\ TopLevelCall
    /\ {"post_type", "message_type", "message"} \subseteq DOMAIN last.data
    /\ last.data["post_type"] \in {"message", "message_sent"}
    /\ last.data["message_type"] \in MessageType
    /\ resolve(registries["PostType"], last.data["post_type"]) = "MessageEvent"
    /\ resolve(registries["MessageType"], last.data["message_type"]) # None
    /\ FirstFailure(registries["ElementType"], last.data["message"]) # 0

\* C29: decoding a message event is all-or-nothing over its elements: when an
\* entry of message does not decode, the call produces no event, and once
\* from_json has come to the message array the error it delivers is the one
\* of the first failing entry in array order, unchanged.
C29_MessageAllOrNothing ==
    FailingEntryCall =>
        /\ ~last.res.ok
        /\ ReadBeforeMessage \subseteq DOMAIN last.data =>
              last.res =
                 parse_element(registries["ElementType"],
                    last.data["message"][FirstFailure(registries["ElementType"],
                                                      last.data["message"])])

\* Two entries of message fail in different ways after one that decodes, and
\* the call has delivered the error of the first of the two.
C29_Witness ==
    /\ FailingEntryCall
    /\ Len(last.data["message"]) = 3
    /\ FirstFailure(registries["ElementType"], last.data["message"]) = 2
    /\ ~parse_element(registries["ElementType"], last.data["message"][3]).ok
    /\ parse_element(registries["ElementType"], last.data["message"][3])
          # parse_element(registries["ElementType"], last.data["message"][2])
    /\ last.res = parse_element(registries["ElementType"], last.data["message"][2])

\* The registries below the top level, and the element registry.
NestedRegistries == {"MessageType", "MetaType", "NoticeType", "RequestType", "ElementType"}

\* The exception delivered has a frame of type t raised at site.
RaisedAt(t, site) ==
    /\ ~last.res.ok
    /\ \E i \in 1..Len(last.res.exc) :
          last.res.exc[i].type = t /\ last.res.exc[i].site = site

\* C30: once every model module is loaded, each nested registry (MessageType,
\* MetaType, NoticeType, RequestType) and the element registry holds a decoder
\* for every value of its enum, so no parse_event of a root class and no
\* parse_element ever raises UnregisteredEventError / UnregisteredElementError;
\* only the top-level lookup by post_type can.
C30_NestedRegistriesComplete ==
    Imported =>
        /\ \A r \in NestedRegistries : \A v \in RegistryEnum[r] :
              resolve(registries[r], v) # None
        /\ last.op = "parse_event" =>
              \A root \in DOMAIN Roots \ {"BasicEvent"} :
                 ~RaisedAt("UnregisteredEventError", root \o ".parse_event")
        /\ last.op \in {"parse_event", "parse_element"} =>
              ~RaisedAt("UnregisteredElementError", "Element.parse_element")

\* A notice of the last type registered has been decoded by NoticeEvent.
C30_Witness ==
    /\ Imported
    /\ RootCall
    /\ last.class = "NoticeEvent"
    /\ "notice_type" \in DOMAIN last.data
    /\ last.data["notice_type"] = "poke"
    /\ last.res.ok
    /\ last.res.val.cls = "PokeNoticeEvent"

====
